---- MODULE Spec2Model ----
(***************************************************************************)
(* The course-authoring application: the App component owning the Course   *)
(* (Outline), the OutlineView / ChapterView / SectionView components with   *)
(* their local state, the calls to the generation service that are in      *)
(* flight, and the handlers that apply their results to the Course.        *)
(*                                                                         *)
(* One action is one event-loop task: a user gesture running its handler   *)
(* up to the first await, or the settling of an external call running the  *)
(* rest of the handler that awaited it.                                    *)
(***************************************************************************)
EXTENDS Integers, Sequences, FiniteSets, TLC

VARIABLES
    apiKey,       \* App: the credential, Null until submitted
    outline,      \* App: the Course, NoOutline when absent
    topic,        \* App: topic text
    numChapters,  \* App: chapter count field
    language,     \* App: selected language
    appLoading,   \* App: isLoading of the outline generation
    error,        \* App: error message, Null when none
    nextId,       \* the next value crypto.randomUUID() returns
    ov,           \* OutlineView local state (meaningful while a Course is shown)
    cv,           \* ChapterView local state, by chapter id (mounted views)
    sv,           \* SectionView local state, by section id (mounted views)
    pending,      \* external calls in flight, in dispatch order
    lastSet       \* what the last step's setOutline call did (history)

vars == <<apiKey, outline, topic, numChapters, language, appLoading, error,
          nextId, ov, cv, sv, pending, lastSet>>

appVars == <<apiKey, topic, numChapters, language, appLoading, error>>

-----------------------------------------------------------------------------
(* Bounds of the model *)

\* ids the allocator may hand out in one behaviour
MaxId == 5
\* external calls in flight at once
MaxPending == 2
\* sets in a sequence of sets a delete handler is run on
MaxSets == 3
\* nesting of arrays and objects in the JSON texts given to tryParseJson
MaxDepth == 1

-----------------------------------------------------------------------------
(* Values *)

\* null of a string-typed field (apiKey, error, content, modal, solverImage)
Null == "<null>"
\* the Course being absent (outline === null)
NoOutline == [absent |-> TRUE]

\* the error strings the service returns in place of a result
ContentError == "Error: Could not generate content."
SolverError == "Error: Could not get a solution."
OutlineError == "Failed to generate outline. Please check your API key and try again."
\* the error string of handleGenerateOutline's catch
UnexpectedError == "An unexpected error occurred."

\* task keys of ChapterView's isLoading map
Keys == {"exercises", "solver", "topicExtraction", "pdfParse"}

\* what the user may type into a text field
Texts == {"", "txt"}

\* The parsed responses of the outline request the model draws from: a title
\* and, per chapter, a title and section titles.
OutlineResponses ==
    { [title |-> "Course", chapters |-> <<[title |-> "A", sections |-> <<"a1">>]>>],
      [title |-> "Course", chapters |-> <<[title |-> "A", sections |-> <<"a1", "a2">>]>>],
      [title |-> "Course", chapters |-> <<[title |-> "A", sections |-> <<"a1">>],
                                          [title |-> "B", sections |-> <<"b1">>]>>] }

\* a value of the response that is not an array, and the parsed value null
\* (JSON null, or tryParseJson's fallback)
NotAnArray == <<[notArray |-> TRUE]>>
NullParsed == [null |-> TRUE]

\* Parsed responses the service does not promise but JSON allows: no title,
\* an empty title, chapters missing or not an array, no chapter, a chapter
\* without sections or with no sections field, fields nobody asked for
ParsedResponses ==
    OutlineResponses \cup
    { NullParsed,
      [chapters |-> <<[title |-> "A", sections |-> <<"a1">>]>>],
      [title |-> "", chapters |-> <<[title |-> "A", sections |-> <<"a1">>]>>],
      [title |-> "Course"],
      [title |-> "Course", chapters |-> NotAnArray],
      [title |-> "Course", chapters |-> <<>>],
      [title |-> "Course", chapters |-> <<[title |-> "A", sections |-> <<>>]>>],
      [title |-> "Course", chapters |-> <<[title |-> "A"]>>],
      [title |-> "Course",
       chapters |-> <<[title |-> "A", sections |-> <<"a1">>, id |-> 0,
                       exerciseSets |-> <<"extra">>, solverSets |-> <<"extra">>]>>,
       examSets |-> <<"extra">>, author |-> "extra"] }

\* results of the exercise request as tryParseJson returns them: a usable set,
\* the fallback { exercises: [] }, or JSON null
ExerciseResults == {"ok", "empty", "null"}

Exercises(res) == IF res = "ok" THEN <<"exercise">> ELSE <<>>

-----------------------------------------------------------------------------
(* Sequence helpers *)

\* a variant of filter that stops at the first element with the id
FilterUpTo(seq, id) ==
    IF \E k \in DOMAIN seq : seq[k].id = id
    THEN SubSeq(seq, 1, (CHOOSE k \in DOMAIN seq :
                            /\ seq[k].id = id
                            /\ \A j \in 1..(k - 1) : seq[j].id # id) - 1)
    ELSE seq

RECURSIVE Filter(_, _)
\* Array.prototype.filter(s => s.id !== id)
Filter(seq, id) ==
    IF seq = <<>> THEN <<>>
    ELSE IF Head(seq).id # id THEN <<Head(seq)>> \o Filter(Tail(seq), id)
         ELSE Filter(Tail(seq), id)

RemoveAt(seq, i) == SubSeq(seq, 1, i - 1) \o SubSeq(seq, i + 1, Len(seq))

Range(seq) == { seq[i] : i \in DOMAIN seq }

-----------------------------------------------------------------------------
(* The document tree *)

ChapterIdsOf(o) ==
    IF o = NoOutline THEN {} ELSE { o.chapters[i].id : i \in DOMAIN o.chapters }

SectionIdsOfChapter(c) == { c.sections[j].id : j \in DOMAIN c.sections }

SectionIdsOf(o) ==
    IF o = NoOutline THEN {}
    ELSE UNION { SectionIdsOfChapter(o.chapters[i]) : i \in DOMAIN o.chapters }

ChapterById(o, id) ==
    CHOOSE c \in Range(o.chapters) : c.id = id

SectionById(o, id) ==
    CHOOSE s \in UNION { Range(o.chapters[i].sections) : i \in DOMAIN o.chapters } :
        s.id = id

ChapterOfSection(o, sid) ==
    CHOOSE c \in Range(o.chapters) : sid \in SectionIdsOfChapter(c)

-----------------------------------------------------------------------------
(* Targeted mutation.  An updater closure is a record naming what it does. *)

\* a variant of applySectionUpdater whose content updater builds the section
\* anew instead of spreading the previous one
applySectionUpdaterSectionAnew(u, s) ==
    CASE u.kind = "content" ->
            [id |-> s.id, title |-> s.title, content |-> u.content, images |-> <<>>]
      [] u.kind = "image"   -> [s EXCEPT !.images = Append(s.images, u.image)]

\* a variant of applySectionUpdater whose image updater keeps the new image
\* only
applySectionUpdaterNewImageOnly(u, s) ==
    CASE u.kind = "content" -> [s EXCEPT !.content = u.content]
      [] u.kind = "image"   -> [s EXCEPT !.images = <<u.image>>]

\* a variant of applySectionUpdater that puts a new image before the others
applySectionUpdaterImageFirst(u, s) ==
    CASE u.kind = "content" -> [s EXCEPT !.content = u.content]
      [] u.kind = "image"   -> [s EXCEPT !.images = <<u.image>> \o s.images]

\* the updaters handed to updateSection
applySectionUpdater(u, s) ==
    CASE u.kind = "content" -> [s EXCEPT !.content = u.content]
      [] u.kind = "image"   -> [s EXCEPT !.images = Append(s.images, u.image)]

\* a variant of applyChapterUpdater whose section updater forgets to compare
\* the section id
applyChapterUpdaterEverySection(u, c) ==
    CASE u.kind = "section" ->
            [c EXCEPT !.sections =
                [j \in DOMAIN c.sections |-> applySectionUpdater(u.updater, c.sections[j])]]
      [] OTHER -> c

\* the updaters handed to updateChapter
applyChapterUpdater(u, c) ==
    CASE u.kind = "exerciseSets" ->
            \* { ...prevChapter, exerciseSets: [...chapter.exerciseSets, newSet] }
            [c EXCEPT !.exerciseSets = Append(u.snapshot, u.newSet)]
      [] u.kind = "solverSets" ->
            [c EXCEPT !.solverSets = Append(u.snapshot, u.newSet)]
      [] u.kind = "deleteExerciseSet" ->
            [c EXCEPT !.exerciseSets = Filter(c.exerciseSets, u.id)]
      [] u.kind = "deleteSolverSet" ->
            [c EXCEPT !.solverSets = Filter(c.solverSets, u.id)]
      [] u.kind = "addSections" ->
            [c EXCEPT !.sections = c.sections \o u.newSections]
      [] u.kind = "section" ->
            [c EXCEPT !.sections =
                [j \in DOMAIN c.sections |->
                    IF c.sections[j].id = u.sectionId
                    THEN applySectionUpdater(u.updater, c.sections[j])
                    ELSE c.sections[j]]]

\* a variant of updateChapter that rebuilds the Course without its exam sets
updateChapterDropExams(prevOutline, chapterId, updater) ==
    IF prevOutline = NoOutline THEN NoOutline
    ELSE [title |-> prevOutline.title,
          chapters |->
            [i \in DOMAIN prevOutline.chapters |->
                IF prevOutline.chapters[i].id = chapterId
                THEN applyChapterUpdater(updater, prevOutline.chapters[i])
                ELSE prevOutline.chapters[i]],
          examSets |-> <<>>]

\* a variant of updateChapter that falls back on the first chapter when no
\* chapter has the id
updateChapterOrFirst(prevOutline, chapterId, updater) ==
    IF prevOutline = NoOutline THEN NoOutline
    ELSE [prevOutline EXCEPT !.chapters =
            [i \in DOMAIN prevOutline.chapters |->
                IF \/ prevOutline.chapters[i].id = chapterId
                   \/ i = 1 /\ \A k \in DOMAIN prevOutline.chapters :
                                   prevOutline.chapters[k].id # chapterId
                THEN applyChapterUpdater(updater, prevOutline.chapters[i])
                ELSE prevOutline.chapters[i]]]

\* a variant of updateChapter that does not compare the chapter id
updateChapterEveryChapter(prevOutline, chapterId, updater) ==
    IF prevOutline = NoOutline THEN NoOutline
    ELSE [prevOutline EXCEPT !.chapters =
            [i \in DOMAIN prevOutline.chapters |->
                applyChapterUpdater(updater, prevOutline.chapters[i])]]

\* a variant of updateChapter that spreads a null Course into an empty one
updateChapterFromNothing(prevOutline, chapterId, updater) ==
    IF prevOutline = NoOutline
    THEN [title |-> "", chapters |-> <<>>, examSets |-> <<>>]
    ELSE [prevOutline EXCEPT !.chapters =
            [i \in DOMAIN prevOutline.chapters |->
                IF prevOutline.chapters[i].id = chapterId
                THEN applyChapterUpdater(updater, prevOutline.chapters[i])
                ELSE prevOutline.chapters[i]]]

\* a variant of updateChapter that puts the updated chapter before the others
updateChapterMovedFirst(prevOutline, chapterId, updater) ==
    IF prevOutline = NoOutline THEN NoOutline
    ELSE LET hit == SelectSeq(prevOutline.chapters, LAMBDA c : c.id = chapterId)
             rest == SelectSeq(prevOutline.chapters, LAMBDA c : c.id # chapterId) IN
         [prevOutline EXCEPT !.chapters =
            [j \in DOMAIN hit |-> applyChapterUpdater(updater, hit[j])] \o rest]

\* OutlineView.updateChapter: the updater function given to setOutline
updateChapter(prevOutline, chapterId, updater) ==
    IF prevOutline = NoOutline THEN NoOutline
    ELSE [prevOutline EXCEPT !.chapters =
            [i \in DOMAIN prevOutline.chapters |->
                IF prevOutline.chapters[i].id = chapterId
                THEN applyChapterUpdater(updater, prevOutline.chapters[i])
                ELSE prevOutline.chapters[i]]]

\* a variant of updateSection that looks for the section in every chapter
updateSectionAnyChapter(prevOutline, chapterId, sectionId, updater) ==
    updateChapterEveryChapter(prevOutline, chapterId,
                  [kind |-> "section", sectionId |-> sectionId, updater |-> updater])

\* ChapterView.updateSection, for the ChapterView of chapter chapterId
updateSection(prevOutline, chapterId, sectionId, updater) ==
    updateChapter(prevOutline, chapterId,
                  [kind |-> "section", sectionId |-> sectionId, updater |-> updater])

\* What a setOutline call of updateChapter does to the Course object: the
\* updater returns null for null ("null") and otherwise an object literal, a
\* new Course object, whether a chapter had the id ("hit") or none ("miss").
\* lastSet is "none" after a step that did not call setOutline.
updateKind(prevOutline, chapterId) ==
    IF prevOutline = NoOutline THEN "null"
    ELSE IF chapterId \in ChapterIdsOf(prevOutline) THEN "hit" ELSE "miss"

\* the values of lastSet after which the Course is a newly built object;
\* "course" is a setOutline call made outside updateChapter
NewObject == {"hit", "miss", "course"}

-----------------------------------------------------------------------------
(* Component state and calls in flight *)

\* useState initial values of OutlineView
InitOutlineView == [examLoading |-> FALSE, isModalOpen |-> FALSE, focusedIdea |-> ""]

\* useState initial values of ChapterView
InitChapterView ==
    [isOpen |-> FALSE, isLoading |-> [k \in Keys |-> FALSE], modal |-> Null,
     focusedIdea |-> "", solverText |-> "", solverImage |-> Null,
     extractedTopics |-> <<>>, fileInput |-> "", uploadAlert |-> FALSE]

\* useState initial values of SectionView
InitSectionView ==
    [isOpen |-> FALSE, isLoading |-> FALSE, isImageLoading |-> FALSE,
     isModalOpen |-> FALSE, focusedIdea |-> ""]

NoInput == [type |-> "text", content |-> ""]

\* A call in flight with what the handler awaiting it closed over: the ids of
\* its chapter and section props, the sets of the chapter prop (snapshot), the
\* idea argument, the solver input; orphan: the component that dispatched it
\* has been unmounted, so its state setters no longer do anything.
Call(kind, cid, sid, snapshot, idea, input) ==
    [kind |-> kind, cid |-> cid, sid |-> sid, orphan |-> FALSE,
     snapshot |-> snapshot, idea |-> idea, input |-> input, fromPdf |-> FALSE,
     title |-> ""]

\* A modal is a full-page overlay: while one is open only its own controls
\* can be reached.
AnyModalOpen ==
    \/ ov.isModalOpen
    \/ \E c \in DOMAIN cv : cv[c].modal # Null
    \/ \E s \in DOMAIN sv : sv[s].isModalOpen

CanDispatch == Len(pending) < MaxPending

\* unmounting: the calls of the unmounted components lose their component
Orphaned(calls, kinds, cids) ==
    [i \in DOMAIN calls |->
        IF calls[i].kind \in kinds /\ calls[i].cid \in cids
        THEN [calls[i] EXCEPT !.orphan = TRUE] ELSE calls[i]]

\* the domain of a function cut down to, or widened by, a set of keys
Without(f, keys) == [x \in DOMAIN f \ keys |-> f[x]]
With(f, keys, v) == [x \in DOMAIN f \cup keys |-> IF x \in DOMAIN f THEN f[x] ELSE v]

-----------------------------------------------------------------------------
(* tryParseJson: the text of a response, a sequence of characters, cleaned
   before JSON.parse *)

\* the grave accent (U+0060), the character fence markers are made of
Grave == "grave"

Fence == <<Grave, Grave, Grave>>
FenceJson == Fence \o <<"j", "s", "o", "n">>

\* the whitespace characters used here
Whitespace == {" ", "\n"}

StartsWith(s, prefix) ==
    Len(s) >= Len(prefix) /\ SubSeq(s, 1, Len(prefix)) = prefix

RECURSIVE replaceFences(_)
\* the first replace of tryParseJson, of fence markers with or without the
\* word json by nothing: from left to right, the longer alternative first
replaceFences(s) ==
    IF s = <<>> THEN <<>>
    ELSE IF StartsWith(s, FenceJson)
         THEN replaceFences(SubSeq(s, Len(FenceJson) + 1, Len(s)))
    ELSE IF StartsWith(s, Fence)
         THEN replaceFences(SubSeq(s, Len(Fence) + 1, Len(s)))
    ELSE <<Head(s)>> \o replaceFences(Tail(s))

RECURSIVE trimStart(_)
trimStart(s) ==
    IF s # <<>> /\ Head(s) \in Whitespace THEN trimStart(Tail(s)) ELSE s

RECURSIVE trimEnd(_)
trimEnd(s) ==
    IF s # <<>> /\ s[Len(s)] \in Whitespace
    THEN trimEnd(SubSeq(s, 1, Len(s) - 1)) ELSE s

\* String.prototype.trim
trim(s) == trimEnd(trimStart(s))

\* s starts with whitespace, if any, and a closing bracket or brace
ClosesNext(s) ==
    \A rest \in { trimStart(s) } : rest # <<>> /\ Head(rest) \in {"}", "]"}

RECURSIVE replaceTrailingCommas(_)
\* the second replace of tryParseJson: every comma that only whitespace
\* separates from a closing bracket or brace is dropped
replaceTrailingCommas(s) ==
    IF s = <<>> THEN <<>>
    ELSE IF Head(s) = "," /\ ClosesNext(Tail(s))
         THEN replaceTrailingCommas(Tail(s))
    ELSE <<Head(s)>> \o replaceTrailingCommas(Tail(s))

\* the text tryParseJson hands to JSON.parse
cleanedString(jsonString) == replaceTrailingCommas(trim(replaceFences(jsonString)))

\* JSON texts.  String values: empty, a letter, a comma before a closing
\* bracket or brace, a fence marker.
StringBodies ==
    { <<>>, <<"a">>, <<",", "]">>, <<",", " ", "}">>, Fence, FenceJson }

JsonStrings == { <<"\"">> \o b \o <<"\"">> : b \in StringBodies }

RECURSIVE JsonValues(_)
\* the values nested to depth d: strings, a number, arrays of one and two
\* values, objects of one member
JsonValues(d) ==
    IF d = 0 THEN JsonStrings \cup { <<"1">> }
    ELSE LET inner == JsonValues(d - 1) IN
         inner
         \cup { <<"[">> \o v \o <<"]">> : v \in inner }
         \cup { <<"[">> \o v \o <<",", " ">> \o w \o <<"]">> : v, w \in inner }
         \cup { <<"{">> \o k \o <<":">> \o v \o <<"}">> : k \in JsonStrings, v \in inner }

\* valid JSON texts with no whitespace around them
JsonTexts == JsonValues(MaxDepth)

-----------------------------------------------------------------------------
(* generateOutline: from the parsed response to a Course *)

RECURSIVE IdsBefore(_, _)
\* ids consumed by the chapters before chapter i: one per chapter and section
IdsBefore(chapters, i) ==
    IF i = 1 THEN 0
    ELSE IdsBefore(chapters, i - 1) + 1 + Len(chapters[i - 1].sections)

IdsNeeded(parsed) == IdsBefore(parsed.chapters, Len(parsed.chapters) + 1)

\* a variant of buildOutline in which the first section of a chapter gets the
\* chapter's id
buildOutlineSharedId(parsed, first) ==
    [title |-> parsed.title,
     chapters |->
        [i \in DOMAIN parsed.chapters |->
            LET base == first + IdsBefore(parsed.chapters, i) IN
            [id |-> base,
             title |-> parsed.chapters[i].title,
             sections |->
                [j \in DOMAIN parsed.chapters[i].sections |->
                    [id |-> base + j - 1,
                     title |-> parsed.chapters[i].sections[j],
                     content |-> Null,
                     images |-> <<>>]],
             exerciseSets |-> <<>>,
             solverSets |-> <<>>]],
     examSets |-> <<>>]

\* the Course built from a parsed response, ids taken from first on
buildOutline(parsed, first) ==
    [title |-> parsed.title,
     chapters |->
        [i \in DOMAIN parsed.chapters |->
            LET base == first + IdsBefore(parsed.chapters, i) IN
            [id |-> base,
             title |-> parsed.chapters[i].title,
             sections |->
                [j \in DOMAIN parsed.chapters[i].sections |->
                    [id |-> base + j,
                     title |-> parsed.chapters[i].sections[j],
                     content |-> Null,
                     images |-> <<>>]],
             exerciseSets |-> <<>>,
             solverSets |-> <<>>]],
     examSets |-> <<>>]

\* generateOutline's check of the parsed value, and chap.sections.map not
\* throwing into the catch that returns null
accepted(parsed) ==
    /\ parsed # NullParsed
    /\ "title" \in DOMAIN parsed /\ parsed.title # ""
    /\ "chapters" \in DOMAIN parsed /\ parsed.chapters # NotAnArray
    /\ \A i \in DOMAIN parsed.chapters : "sections" \in DOMAIN parsed.chapters[i]

\* a variant of generateOutline that spreads the parsed value last
generateOutlineSpreadLast(parsed, first) ==
    IF ~accepted(parsed) THEN NoOutline
    ELSE [f \in DOMAIN parsed \cup {"chapters", "examSets"} |->
            IF f \in DOMAIN parsed \ {"chapters"} THEN parsed[f]
            ELSE IF f = "chapters" THEN buildOutline(parsed, first).chapters
            ELSE <<>>]

\* generateOutline from the parsed value on: null, or the parsed value spread
\* under the chapters built anew and an empty examSets
generateOutline(parsed, first) ==
    IF ~accepted(parsed) THEN NoOutline
    ELSE [f \in DOMAIN parsed \cup {"chapters", "examSets"} |->
            IF f = "chapters" THEN buildOutline(parsed, first).chapters
            ELSE IF f = "examSets" THEN <<>>
            ELSE parsed[f]]

-----------------------------------------------------------------------------
(* What the handlers do to the Course when their call has settled *)

\* results of solveWithAI: a solution, its error string, or no text
SolverResults == {"solution", SolverError, ""}

\* results of generateSectionContent: the text, or its error string
ContentResults == {"content", ContentError}

\* results of generateImage: the image bytes, or null
ImageData == "data:image/jpeg;base64"
ImageResults == {ImageData, Null}

\* the updater handleGenerateExercises gives handleAction, as handed to
\* updateChapter
exercisesUpdater(call, res, id) ==
    [kind |-> "exerciseSets", snapshot |-> call.snapshot,
     newSet |-> [id |-> id, focusedIdea |-> call.idea, exercises |-> Exercises(res)]]

\* the updater handleSolverSubmit gives handleAction
solverUpdater(call, res, id) ==
    [kind |-> "solverSets", snapshot |-> call.snapshot,
     newSet |-> [id |-> id, userInput |-> call.input, solution |-> res]]

\* what handleAction's `if (result)` takes for a result
truthy(res) == res \notin {"null", ""}

\* handleAction's `if (result) updateChapter(chapter.id, ...)`
actionUpdate(prev, call, res, upd) ==
    IF truthy(res) THEN updateChapter(prev, call.cid, upd) ELSE prev

\* the updater handleGenerateContent gives updateSection
contentUpdater(res) == [kind |-> "content", content |-> res]

\* the updater handleGenerateImage gives updateSection
imageUpdater(call, res, id) ==
    [kind |-> "image",
     image |-> [id |-> id, base64 |-> res,
                prompt |-> IF call.idea # "" THEN call.idea ELSE call.title]]

\* the updater handleGenerateExam gives setOutline, data.exercises being an
\* array: an array, empty or not, is truthy
examUpdater(prev, call, res, id) ==
    IF prev # NoOutline
    THEN [prev EXCEPT !.examSets =
            Append(prev.examSets, [id |-> id, focusedIdea |-> call.idea,
                                   exercises |-> Exercises(res)])]
    ELSE NoOutline

\* The Course that setOutline is left with when the handler awaiting call
\* has run on result res, crypto.randomUUID() returning id to it.
courseAfter(prev, call, res, id) ==
    CASE call.kind = "exercises" ->
            actionUpdate(prev, call, res, exercisesUpdater(call, res, id))
      [] call.kind = "solver" ->
            actionUpdate(prev, call, res, solverUpdater(call, res, id))
      [] call.kind = "content" ->
            updateSection(prev, call.cid, call.sid, contentUpdater(res))
      [] call.kind = "image" ->
            IF res = Null THEN prev
            ELSE updateSection(prev, call.cid, call.sid, imageUpdater(call, res, id))
      [] call.kind = "exam" ->
            IF res = "null" THEN prev ELSE examUpdater(prev, call, res, id)
      [] OTHER -> prev

-----------------------------------------------------------------------------
(* App *)

\* ApiKeyInput.handleSubmit -> setApiKey
SubmitApiKey ==
    /\ apiKey = Null
    /\ apiKey' = "key"
    /\ lastSet' = "none"
    /\ UNCHANGED <<outline, topic, numChapters, language, appLoading, error,
                   nextId, ov, cv, sv, pending>>

\* the topic input's onChange
SetTopic(t) ==
    /\ apiKey # Null /\ outline = NoOutline
    /\ topic # t
    /\ topic' = t
    /\ lastSet' = "none"
    /\ UNCHANGED <<apiKey, outline, numChapters, language, appLoading, error,
                   nextId, ov, cv, sv, pending>>

\* what the user may type into the number field, and Number(e.target.value)
\* of it; the field emptied gives Number("") = 0
TypedNumbers == {"", "-1", "0", "1", "2", "20", "21"}

NumberOf(value) ==
    CASE value = "" -> 0
      [] value = "-1" -> -1
      [] value = "0" -> 0
      [] value = "1" -> 1
      [] value = "2" -> 2
      [] value = "20" -> 20
      [] value = "21" -> 21

\* the chapters input's onChange; min and max of the input element bound
\* its stepping, not what is typed
SetNumChapters(value) ==
    /\ apiKey # Null /\ outline = NoOutline
    /\ numChapters # NumberOf(value)
    /\ numChapters' = NumberOf(value)
    /\ lastSet' = "none"
    /\ UNCHANGED <<apiKey, outline, topic, language, appLoading, error,
                   nextId, ov, cv, sv, pending>>

\* handleGenerateOutline without its setError(null)
GenerateOutlineKeepsError ==
    /\ apiKey # Null /\ outline = NoOutline
    /\ ~appLoading /\ topic # ""
    /\ CanDispatch
    /\ appLoading' = TRUE
    /\ pending' = Append(pending,
            Call("outline", 0, 0, <<>>, "",
                 [type |-> "outline", content |-> topic,
                  numChapters |-> numChapters, language |-> language]))
    /\ lastSet' = "none"
    /\ UNCHANGED <<apiKey, outline, topic, numChapters, language, error, nextId,
                   ov, cv, sv>>

\* handleGenerateOutline up to its await, reachable while a call is in
\* flight: the Generate Outline button without isLoading in its disabled
GenerateOutlineWhileLoading ==
    /\ apiKey # Null /\ outline = NoOutline
    /\ topic # ""
    /\ CanDispatch
    /\ appLoading' = TRUE
    /\ error' = Null
    /\ pending' = Append(pending,
            Call("outline", 0, 0, <<>>, "",
                 [type |-> "outline", content |-> topic,
                  numChapters |-> numChapters, language |-> language]))
    /\ lastSet' = "none"
    /\ UNCHANGED <<apiKey, outline, topic, numChapters, language, nextId, ov, cv, sv>>

\* handleGenerateOutline up to its await
GenerateOutline ==
    /\ apiKey # Null /\ outline = NoOutline
    /\ ~appLoading /\ topic # ""
    /\ CanDispatch
    /\ appLoading' = TRUE
    /\ error' = Null
    /\ pending' = Append(pending,
            Call("outline", 0, 0, <<>>, "",
                 [type |-> "outline", content |-> topic,
                  numChapters |-> numChapters, language |-> language]))
    /\ lastSet' = "none"
    /\ UNCHANGED <<apiKey, outline, topic, numChapters, language, nextId, ov, cv, sv>>

\* handleGenerateOutline after its await: generateOutline returned a Course
OutlineSettlesOk(i, parsed) ==
    /\ pending[i].kind = "outline"
    /\ accepted(parsed)
    /\ nextId + IdsNeeded(parsed) - 1 <= MaxId
    /\ LET course == generateOutline(parsed, nextId) IN
        /\ outline' = course
        /\ ov' = InitOutlineView
        /\ cv' = [c \in ChapterIdsOf(course) |-> InitChapterView]
        /\ sv' = <<>>
    /\ nextId' = nextId + IdsNeeded(parsed)
    /\ appLoading' = FALSE
    /\ pending' = RemoveAt(pending, i)
    /\ lastSet' = "course"
    /\ UNCHANGED <<apiKey, topic, numChapters, language, error>>

\* handleGenerateOutline after its await: generateOutline returned null
OutlineSettlesNull(i) ==
    /\ pending[i].kind = "outline"
    /\ error' = OutlineError
    /\ appLoading' = FALSE
    /\ pending' = RemoveAt(pending, i)
    /\ lastSet' = "none"
    /\ UNCHANGED <<apiKey, outline, topic, numChapters, language, nextId, ov, cv, sv>>

\* handleGenerateOutline after its await: generateOutline returned null for
\* a parsed value it does not accept
OutlineSettlesRejected(i, parsed) ==
    /\ ~accepted(parsed)
    /\ OutlineSettlesNull(i)

\* handleGenerateOutline after its await: generateOutline threw (getAI runs
\* outside generateOutline's own try)
OutlineSettlesThrows(i) ==
    /\ pending[i].kind = "outline"
    /\ error' = UnexpectedError
    /\ appLoading' = FALSE
    /\ pending' = RemoveAt(pending, i)
    /\ lastSet' = "none"
    /\ UNCHANGED <<apiKey, outline, topic, numChapters, language, nextId, ov, cv, sv>>

\* the languages of the select
Languages == {"English", "Arabic", "French", "Spanish", "German", "Chinese"}

\* the language select's onChange
SetLanguage(l) ==
    /\ apiKey # Null /\ ~AnyModalOpen
    /\ language # l
    /\ language' = l
    /\ lastSet' = "none"
    /\ UNCHANGED <<apiKey, outline, topic, numChapters, error, appLoading,
                   nextId, ov, cv, sv, pending>>

\* a variant of handleReset that puts the whole form back to its initial
\* values
ResetWholeForm ==
    /\ outline # NoOutline
    /\ ~AnyModalOpen
    /\ outline' = NoOutline
    /\ topic' = ""
    /\ error' = Null
    /\ numChapters' = 5
    /\ language' = "English"
    /\ ov' = InitOutlineView
    /\ cv' = <<>>
    /\ sv' = <<>>
    /\ pending' = [i \in DOMAIN pending |-> [pending[i] EXCEPT !.orphan = TRUE]]
    /\ lastSet' = "null"
    /\ UNCHANGED <<apiKey, appLoading, nextId>>

\* handleReset, from the New Outline button; the whole OutlineView unmounts
Reset ==
    /\ outline # NoOutline
    /\ ~AnyModalOpen
    /\ outline' = NoOutline
    /\ topic' = ""
    /\ error' = Null
    /\ ov' = InitOutlineView
    /\ cv' = <<>>
    /\ sv' = <<>>
    /\ pending' = [i \in DOMAIN pending |-> [pending[i] EXCEPT !.orphan = TRUE]]
    /\ lastSet' = "null"
    /\ UNCHANGED <<apiKey, numChapters, language, appLoading, nextId>>

-----------------------------------------------------------------------------
(* OutlineView *)

OpenExamModal ==
    /\ outline # NoOutline /\ ~AnyModalOpen
    /\ ov' = [ov EXCEPT !.isModalOpen = TRUE]
    /\ lastSet' = "none"
    /\ UNCHANGED <<appVars, outline, nextId, cv, sv, pending>>

CloseExamModal ==
    /\ ov.isModalOpen
    /\ ov' = [ov EXCEPT !.isModalOpen = FALSE]
    /\ lastSet' = "none"
    /\ UNCHANGED <<appVars, outline, nextId, cv, sv, pending>>

\* the exam modal's text input
TypeExamIdea(t) ==
    /\ ov.isModalOpen /\ ov.focusedIdea # t
    /\ ov' = [ov EXCEPT !.focusedIdea = t]
    /\ lastSet' = "none"
    /\ UNCHANGED <<appVars, outline, nextId, cv, sv, pending>>

\* handleGenerateExam up to its await, from the refresh button (idea '') or
\* from the modal's button (the typed idea)
GenerateExam(viaModal) ==
    /\ outline # NoOutline
    /\ ~ov.examLoading
    /\ IF viaModal THEN ov.isModalOpen ELSE ~AnyModalOpen
    /\ CanDispatch
    /\ ov' = [ov EXCEPT !.examLoading = TRUE]
    /\ pending' = Append(pending,
            Call("exam", 0, 0, <<>>, IF viaModal THEN ov.focusedIdea ELSE "", NoInput))
    /\ lastSet' = "none"
    /\ UNCHANGED <<appVars, outline, nextId, cv, sv>>

\* the state setters at the end of handleGenerateExam
examDone(view) ==
    [view EXCEPT !.examLoading = FALSE, !.isModalOpen = FALSE, !.focusedIdea = ""]

\* handleGenerateExam after its await, data = { exercises: [...] }
ExamSettles(i, res) ==
    /\ pending[i].kind = "exam"
    /\ res \in {"ok", "empty"}
    /\ nextId <= MaxId
    /\ outline' = courseAfter(outline, pending[i], res, nextId)
    /\ nextId' = nextId + 1
    /\ ov' = IF pending[i].orphan THEN ov ELSE examDone(ov)
    /\ pending' = RemoveAt(pending, i)
    /\ lastSet' = IF outline # NoOutline THEN "course" ELSE "null"
    /\ UNCHANGED <<appVars, cv, sv>>

\* handleGenerateExam after its await, data = null: data.exercises throws and
\* the rest of the handler does not run
ExamSettlesNull(i) ==
    /\ pending[i].kind = "exam"
    /\ pending' = RemoveAt(pending, i)
    /\ lastSet' = "none"
    /\ UNCHANGED <<appVars, outline, nextId, ov, cv, sv>>

\* onDelete of an exam set
DeleteExamSet(id) ==
    /\ outline # NoOutline /\ ~AnyModalOpen
    /\ \E k \in DOMAIN outline.examSets : outline.examSets[k].id = id
    /\ outline' = [outline EXCEPT !.examSets = Filter(outline.examSets, id)]
    /\ lastSet' = "course"
    /\ UNCHANGED <<appVars, nextId, ov, cv, sv, pending>>

-----------------------------------------------------------------------------
(* ChapterView, of the chapter with id c *)

\* the chapter header's onClick; closing the chapter unmounts its
\* SectionViews, opening it mounts new ones
ToggleChapter(c) ==
    /\ c \in DOMAIN cv /\ ~AnyModalOpen
    /\ cv' = [cv EXCEPT ![c].isOpen = ~cv[c].isOpen]
    /\ LET sids == SectionIdsOfChapter(ChapterById(outline, c)) IN
        IF cv[c].isOpen
        THEN /\ sv' = Without(sv, sids)
             /\ pending' = Orphaned(pending, {"content", "image"}, {c})
        ELSE /\ sv' = With(sv, sids, InitSectionView)
             /\ pending' = pending
    /\ lastSet' = "none"
    /\ UNCHANGED <<appVars, outline, nextId, ov>>

\* the buttons that open one of the chapter's modals
OpenChapterModal(c, m) ==
    /\ c \in DOMAIN cv /\ cv[c].isOpen /\ ~AnyModalOpen
    /\ cv' = [cv EXCEPT ![c].modal = m]
    /\ lastSet' = "none"
    /\ UNCHANGED <<appVars, outline, nextId, ov, sv, pending>>

\* onClose of the chapter's modals
CloseChapterModal(c) ==
    /\ c \in DOMAIN cv /\ cv[c].modal # Null
    /\ cv' = [cv EXCEPT ![c].modal = Null,
                        ![c].extractedTopics =
                            IF cv[c].modal \in {"extract-text", "extract-pdf"}
                            THEN <<>> ELSE cv[c].extractedTopics,
                        ![c].fileInput = "",
                        ![c].uploadAlert = FALSE]
    /\ lastSet' = "none"
    /\ UNCHANGED <<appVars, outline, nextId, ov, sv, pending>>

\* the exercises modal's text input
TypeFocusedIdea(c, t) ==
    /\ c \in DOMAIN cv /\ cv[c].modal = "exercises" /\ cv[c].focusedIdea # t
    /\ cv' = [cv EXCEPT ![c].focusedIdea = t]
    /\ lastSet' = "none"
    /\ UNCHANGED <<appVars, outline, nextId, ov, sv, pending>>

\* the textarea of the solver modal and of the extract-text modal
TypeSolverText(c, t) ==
    /\ c \in DOMAIN cv /\ cv[c].solverText # t
    /\ \/ cv[c].modal = "solver"
       \/ cv[c].modal = "extract-text" /\ cv[c].extractedTopics = <<>>
    /\ cv' = [cv EXCEPT ![c].solverText = t]
    /\ lastSet' = "none"
    /\ UNCHANGED <<appVars, outline, nextId, ov, sv, pending>>

MAX_FILE_SIZE_MB == 4
MAX_FILE_SIZE_BYTES == MAX_FILE_SIZE_MB * 1024 * 1024

\* sizes of the files the user may choose
FileSizes == {1024, MAX_FILE_SIZE_BYTES, MAX_FILE_SIZE_BYTES + 1}

\* the name of the chosen file as the file input holds it, and the data URL
\* the FileReader makes of the file
FileNameOf(size) ==
    CASE size = 1024 -> "small.png"
      [] size = MAX_FILE_SIZE_BYTES -> "exact.png"
      [] size = MAX_FILE_SIZE_BYTES + 1 -> "over.png"

DataUrlOf(size) ==
    CASE size = 1024 -> "data:image/png;base64,small"
      [] size = MAX_FILE_SIZE_BYTES -> "data:image/png;base64,exact"
      [] size = MAX_FILE_SIZE_BYTES + 1 -> "data:image/png;base64,over"

\* a variant of handleFileUpload that reads the file before it looks at its
\* size
FileUploadReadFirst(c, size) ==
    /\ c \in DOMAIN cv /\ cv[c].modal = "solver"
    /\ IF size > MAX_FILE_SIZE_BYTES
       THEN cv' = [cv EXCEPT ![c].solverImage = DataUrlOf(size),
                             ![c].uploadAlert = TRUE, ![c].fileInput = ""]
       ELSE cv' = [cv EXCEPT ![c].solverImage = DataUrlOf(size),
                             ![c].uploadAlert = FALSE,
                             ![c].fileInput = FileNameOf(size)]
    /\ lastSet' = "none"
    /\ UNCHANGED <<appVars, outline, nextId, ov, sv, pending>>

\* handleFileUpload, the change event of the file input whose value is now
\* the chosen file; the FileReader's onload is taken with it.  fileInput is
\* the value of the input element while the solver modal is mounted,
\* uploadAlert whether the last change event of that element raised the alert.
FileUpload(c, size) ==
    /\ c \in DOMAIN cv /\ cv[c].modal = "solver"
    /\ IF size > MAX_FILE_SIZE_BYTES
       THEN cv' = [cv EXCEPT ![c].uploadAlert = TRUE, ![c].fileInput = ""]
       ELSE cv' = [cv EXCEPT ![c].solverImage = DataUrlOf(size),
                             ![c].uploadAlert = FALSE,
                             ![c].fileInput = FileNameOf(size)]
    /\ lastSet' = "none"
    /\ UNCHANGED <<appVars, outline, nextId, ov, sv, pending>>

\* handleAction up to its await, for handleGenerateExercises: from the refresh
\* button (idea '') or from the modal's button (the typed idea)
GenerateExercises(c, viaModal) ==
    /\ c \in DOMAIN cv
    /\ ~cv[c].isLoading["exercises"]
    /\ IF viaModal THEN cv[c].modal = "exercises" ELSE cv[c].isOpen /\ ~AnyModalOpen
    /\ CanDispatch
    /\ cv' = [cv EXCEPT ![c].isLoading["exercises"] = TRUE]
    /\ pending' = Append(pending,
            Call("exercises", c, 0, ChapterById(outline, c).exerciseSets,
                 IF viaModal THEN cv[c].focusedIdea ELSE "", NoInput))
    /\ lastSet' = "none"
    /\ UNCHANGED <<appVars, outline, nextId, ov, sv>>

\* handleAction up to its await, for handleSolverSubmit
SolverSubmit(c) ==
    /\ c \in DOMAIN cv /\ cv[c].modal = "solver"
    /\ ~cv[c].isLoading["solver"]
    /\ cv[c].solverText # "" \/ cv[c].solverImage # Null
    /\ CanDispatch
    /\ cv' = [cv EXCEPT ![c].isLoading["solver"] = TRUE]
    /\ pending' = Append(pending,
            Call("solver", c, 0, ChapterById(outline, c).solverSets, "",
                 IF cv[c].solverImage # Null
                 THEN [type |-> "image", content |-> cv[c].solverImage]
                 ELSE [type |-> "text", content |-> cv[c].solverText]))
    /\ lastSet' = "none"
    /\ UNCHANGED <<appVars, outline, nextId, ov, sv>>

\* the state setters at the end of handleAction
actionDone(view, action) ==
    [view EXCEPT !.isLoading[action] = FALSE, !.modal = Null, !.focusedIdea = "",
                 !.fileInput = "", !.uploadAlert = FALSE]

\* the .then of handleSolverSubmit
solverDone(view) == [view EXCEPT !.solverImage = Null, !.solverText = ""]

\* handleAction after its await.  The updater given to updateChapter runs,
\* and takes its id, only for a chapter that is in the Course.
ActionSettles(i, res, key) ==
    LET call == pending[i]
        applied == truthy(res) /\ call.cid \in ChapterIdsOf(outline) IN
    /\ applied => nextId <= MaxId
    /\ outline' = courseAfter(outline, call, res, nextId)
    /\ nextId' = IF applied THEN nextId + 1 ELSE nextId
    /\ cv' = IF call.orphan THEN cv
             ELSE [cv EXCEPT ![call.cid] =
                     IF key = "solver" THEN solverDone(actionDone(cv[call.cid], key))
                     ELSE actionDone(cv[call.cid], key)]
    /\ pending' = RemoveAt(pending, i)
    /\ lastSet' = IF truthy(res) THEN updateKind(outline, call.cid) ELSE "none"
    /\ UNCHANGED <<appVars, ov, sv>>

ExercisesSettle(i, res) ==
    /\ pending[i].kind = "exercises"
    /\ ActionSettles(i, res, "exercises")

SolverSettles(i, res) ==
    /\ pending[i].kind = "solver"
    /\ ActionSettles(i, res, "solver")

\* onDelete of a chapter exercise set
DeleteExerciseSet(c, id) ==
    /\ c \in DOMAIN cv /\ cv[c].isOpen /\ ~AnyModalOpen
    /\ \E k \in DOMAIN ChapterById(outline, c).exerciseSets :
            ChapterById(outline, c).exerciseSets[k].id = id
    /\ LET upd == [kind |-> "deleteExerciseSet", id |-> id] IN
        /\ outline' = updateChapter(outline, c, upd)
        /\ lastSet' = updateKind(outline, c)
    /\ UNCHANGED <<appVars, nextId, ov, cv, sv, pending>>

\* onDelete of a solver set
DeleteSolverSet(c, id) ==
    /\ c \in DOMAIN cv /\ cv[c].isOpen /\ ~AnyModalOpen
    /\ \E k \in DOMAIN ChapterById(outline, c).solverSets :
            ChapterById(outline, c).solverSets[k].id = id
    /\ LET upd == [kind |-> "deleteSolverSet", id |-> id] IN
        /\ outline' = updateChapter(outline, c, upd)
        /\ lastSet' = updateKind(outline, c)
    /\ UNCHANGED <<appVars, nextId, ov, cv, sv, pending>>

-----------------------------------------------------------------------------
(* ChapterView: topic extraction *)

\* the topic lists extractTopicsFromText may return: some topics, or none
TopicResults == {"topics", "none"}

TopicsOf(res) == IF res = "topics" THEN <<"topic">> ELSE <<>>

\* handleTextExtraction / processAndExtractTopics up to its await
TextExtraction(c) ==
    /\ c \in DOMAIN cv /\ cv[c].modal = "extract-text"
    /\ cv[c].extractedTopics = <<>>
    /\ ~cv[c].isLoading["topicExtraction"] /\ cv[c].solverText # ""
    /\ CanDispatch
    /\ cv' = [cv EXCEPT ![c].isLoading["topicExtraction"] = TRUE]
    /\ pending' = Append(pending, Call("topics", c, 0, <<>>, "", NoInput))
    /\ lastSet' = "none"
    /\ UNCHANGED <<appVars, outline, nextId, ov, sv>>

\* handlePdfUpload up to its first await (extractTextFromPdf)
PdfUpload(c) ==
    /\ c \in DOMAIN cv /\ cv[c].modal = "extract-pdf"
    /\ cv[c].extractedTopics = <<>>
    /\ ~cv[c].isLoading["pdfParse"]
    /\ CanDispatch
    /\ cv' = [cv EXCEPT ![c].isLoading["pdfParse"] = TRUE]
    /\ pending' = Append(pending, Call("pdf", c, 0, <<>>, "", NoInput))
    /\ lastSet' = "none"
    /\ UNCHANGED <<appVars, outline, nextId, ov, sv>>

\* handlePdfUpload after extractTextFromPdf resolved: processAndExtractTopics
\* runs up to its await
PdfParsed(i) ==
    /\ pending[i].kind = "pdf"
    /\ cv' = IF pending[i].orphan THEN cv
             ELSE [cv EXCEPT ![pending[i].cid].isLoading["topicExtraction"] = TRUE]
    /\ pending' = [pending EXCEPT ![i].kind = "topics", ![i].fromPdf = TRUE]
    /\ lastSet' = "none"
    /\ UNCHANGED <<appVars, outline, nextId, ov, sv>>

\* handlePdfUpload when extractTextFromPdf rejects: nothing after the await
\* runs
PdfRejected(i) ==
    /\ pending[i].kind = "pdf"
    /\ pending' = RemoveAt(pending, i)
    /\ lastSet' = "none"
    /\ UNCHANGED <<appVars, outline, nextId, ov, cv, sv>>

\* processAndExtractTopics after its await, and the end of handlePdfUpload
\* when it was called from there
TopicsSettle(i, res) ==
    /\ pending[i].kind = "topics"
    /\ cv' = IF pending[i].orphan THEN cv
             ELSE [cv EXCEPT ![pending[i].cid].extractedTopics = TopicsOf(res),
                             ![pending[i].cid].isLoading["topicExtraction"] = FALSE,
                             ![pending[i].cid].isLoading["pdfParse"] =
                                 IF pending[i].fromPdf THEN FALSE
                                 ELSE cv[pending[i].cid].isLoading["pdfParse"]]
    /\ pending' = RemoveAt(pending, i)
    /\ lastSet' = "none"
    /\ UNCHANGED <<appVars, outline, nextId, ov, sv>>

\* the sections addTopicsAsSections builds, ids taken from first on
newSections(topics, first) ==
    [k \in DOMAIN topics |->
        [id |-> first + k - 1, title |-> topics[k], content |-> Null, images |-> <<>>]]

\* addTopicsAsSections(extractedTopics)
AddTopics(c) ==
    /\ c \in DOMAIN cv /\ cv[c].modal \in {"extract-text", "extract-pdf"}
    /\ cv[c].extractedTopics # <<>>
    /\ nextId + Len(cv[c].extractedTopics) - 1 <= MaxId
    /\ LET added == newSections(cv[c].extractedTopics, nextId)
           upd == [kind |-> "addSections", newSections |-> added] IN
        /\ outline' = updateChapter(outline, c, upd)
        /\ sv' = IF cv[c].isOpen
                 THEN With(sv, { added[k].id : k \in DOMAIN added }, InitSectionView)
                 ELSE sv
        /\ lastSet' = updateKind(outline, c)
    /\ nextId' = nextId + Len(cv[c].extractedTopics)
    /\ cv' = [cv EXCEPT ![c].extractedTopics = <<>>, ![c].modal = Null]
    /\ UNCHANGED <<appVars, ov, pending>>

-----------------------------------------------------------------------------
(* SectionView, of the section with id s *)

ToggleSection(s) ==
    /\ s \in DOMAIN sv /\ ~AnyModalOpen
    /\ sv' = [sv EXCEPT ![s].isOpen = ~sv[s].isOpen]
    /\ lastSet' = "none"
    /\ UNCHANGED <<appVars, outline, nextId, ov, cv, pending>>

\* handleGenerateContent up to its await; the button is rendered while the
\* section is open, has no content and this view is not loading
GenerateContent(s) ==
    /\ s \in DOMAIN sv /\ ~AnyModalOpen
    /\ sv[s].isOpen /\ ~sv[s].isLoading
    /\ SectionById(outline, s).content = Null
    /\ CanDispatch
    /\ sv' = [sv EXCEPT ![s].isLoading = TRUE]
    /\ pending' = Append(pending,
            Call("content", ChapterOfSection(outline, s).id, s, <<>>, "", NoInput))
    /\ lastSet' = "none"
    /\ UNCHANGED <<appVars, outline, nextId, ov, cv>>

\* handleGenerateContent after its await
ContentSettles(i, res) ==
    LET call == pending[i] IN
    /\ call.kind = "content"
    /\ outline' = courseAfter(outline, call, res, nextId)
    /\ sv' = IF call.orphan THEN sv
             ELSE [sv EXCEPT ![call.sid].isLoading = FALSE, ![call.sid].isOpen = TRUE]
    /\ pending' = RemoveAt(pending, i)
    /\ lastSet' = updateKind(outline, call.cid)
    /\ UNCHANGED <<appVars, nextId, ov, cv>>

OpenImageModal(s) ==
    /\ s \in DOMAIN sv /\ ~AnyModalOpen
    /\ sv[s].isOpen /\ ~sv[s].isImageLoading
    /\ sv' = [sv EXCEPT ![s].isModalOpen = TRUE]
    /\ lastSet' = "none"
    /\ UNCHANGED <<appVars, outline, nextId, ov, cv, pending>>

CloseImageModal(s) ==
    /\ s \in DOMAIN sv /\ sv[s].isModalOpen
    /\ sv' = [sv EXCEPT ![s].isModalOpen = FALSE]
    /\ lastSet' = "none"
    /\ UNCHANGED <<appVars, outline, nextId, ov, cv, pending>>

\* the image modal's text input
TypeImageIdea(s, t) ==
    /\ s \in DOMAIN sv /\ sv[s].isModalOpen /\ sv[s].focusedIdea # t
    /\ sv' = [sv EXCEPT ![s].focusedIdea = t]
    /\ lastSet' = "none"
    /\ UNCHANGED <<appVars, outline, nextId, ov, cv, pending>>

\* the image modal's Generate button: handleGenerateImage up to its await,
\* then setIsModalOpen(false)
GenerateImage(s) ==
    /\ s \in DOMAIN sv /\ sv[s].isModalOpen
    /\ CanDispatch
    /\ sv' = [sv EXCEPT ![s].isImageLoading = TRUE, ![s].isModalOpen = FALSE]
    /\ pending' = Append(pending,
            [Call("image", ChapterOfSection(outline, s).id, s, <<>>, sv[s].focusedIdea,
                  NoInput) EXCEPT !.title = SectionById(outline, s).title])
    /\ lastSet' = "none"
    /\ UNCHANGED <<appVars, outline, nextId, ov, cv>>

\* the state setters at the end of handleGenerateImage
imageDone(view) == [view EXCEPT !.isImageLoading = FALSE, !.focusedIdea = ""]

\* handleGenerateImage after its await, with image bytes
ImageSettles(i) ==
    LET call == pending[i] IN
    /\ call.kind = "image"
    /\ nextId <= MaxId
    /\ outline' = courseAfter(outline, call, ImageData, nextId)
    /\ nextId' = nextId + 1
    /\ sv' = IF call.orphan THEN sv ELSE [sv EXCEPT ![call.sid] = imageDone(sv[call.sid])]
    /\ pending' = RemoveAt(pending, i)
    /\ lastSet' = updateKind(outline, call.cid)
    /\ UNCHANGED <<appVars, ov, cv>>

\* handleGenerateImage after its await, generateImage returned null
ImageSettlesNull(i) ==
    LET call == pending[i] IN
    /\ call.kind = "image"
    /\ sv' = IF call.orphan THEN sv ELSE [sv EXCEPT ![call.sid] = imageDone(sv[call.sid])]
    /\ pending' = RemoveAt(pending, i)
    /\ lastSet' = "none"
    /\ UNCHANGED <<appVars, outline, nextId, ov, cv>>

-----------------------------------------------------------------------------
(* The application *)

Init ==
    /\ apiKey = Null
    /\ outline = NoOutline
    /\ topic = ""
    /\ numChapters = 5
    /\ language = "English"
    /\ appLoading = FALSE
    /\ error = Null
    /\ nextId = 1
    /\ ov = InitOutlineView
    /\ cv = <<>>
    /\ sv = <<>>
    /\ pending = <<>>
    /\ lastSet = "none"


Ids == 1..MaxId

\* the responses with one chapter
OneChapter == { r \in OutlineResponses : Len(r.chapters) = 1 /\ Len(r.chapters[1].sections) = 1 }

\* from the key form to a Course on display
Start(responses) ==
    \/ SubmitApiKey
    \/ \E t \in Texts : SetTopic(t)
    \/ GenerateOutline
    \/ \E i \in DOMAIN pending, parsed \in responses : OutlineSettlesOk(i, parsed)
    \/ \E i \in DOMAIN pending : OutlineSettlesNull(i)
    \/ \E i \in DOMAIN pending : OutlineSettlesThrows(i)

\* The Course's life: outlines generated and reset, chapters opened and
\* closed, exercise and exam sets refreshed and deleted.
Next ==
    \/ Start(OutlineResponses)
    \/ Reset
    \/ \E c \in Ids : ToggleChapter(c)
    \/ \E c \in Ids : GenerateExercises(c, FALSE)
    \/ \E i \in DOMAIN pending, res \in ExerciseResults : ExercisesSettle(i, res)
    \/ \E c \in Ids, id \in Ids : DeleteExerciseSet(c, id)
    \/ GenerateExam(FALSE)
    \/ \E i \in DOMAIN pending, res \in ExerciseResults : ExamSettles(i, res)
    \/ \E i \in DOMAIN pending : ExamSettlesNull(i)
    \/ \E id \in Ids : DeleteExamSet(id)

Spec == Init /\ [][Next]_vars

\* Section content: chapters and sections opened and closed, content
\* generated, outlines generated and reset.
SectionNext ==
    \/ Start(OutlineResponses)
    \/ Reset
    \/ \E c \in Ids : ToggleChapter(c)
    \/ \E s \in Ids : ToggleSection(s)
    \/ \E s \in Ids : GenerateContent(s)
    \/ \E i \in DOMAIN pending, res \in ContentResults : ContentSettles(i, res)

SpecSection == Init /\ [][SectionNext]_vars

\* Section images, through the image modal.
ImageNext ==
    \/ Start(OneChapter)
    \/ \E c \in Ids : ToggleChapter(c)
    \/ \E s \in Ids : ToggleSection(s)
    \/ \E s \in Ids : OpenImageModal(s)
    \/ \E s \in Ids : CloseImageModal(s)
    \/ \E s \in Ids, t \in Texts : TypeImageIdea(s, t)
    \/ \E s \in Ids : GenerateImage(s)
    \/ \E i \in DOMAIN pending : ImageSettles(i)
    \/ \E i \in DOMAIN pending : ImageSettlesNull(i)

SpecImage == Init /\ [][ImageNext]_vars

\* The solver panel of a chapter.
SolverNext ==
    \/ Start(OneChapter)
    \/ \E c \in Ids : ToggleChapter(c)
    \/ \E c \in Ids : OpenChapterModal(c, "solver")
    \/ \E c \in Ids : CloseChapterModal(c)
    \/ \E c \in Ids, t \in Texts : TypeSolverText(c, t)
    \/ \E c \in Ids : FileUpload(c, 1024)
    \/ \E c \in Ids : SolverSubmit(c)
    \/ \E i \in DOMAIN pending, res \in SolverResults : SolverSettles(i, res)
    \/ \E c \in Ids, id \in Ids : DeleteSolverSet(c, id)

SpecSolver == Init /\ [][SolverNext]_vars

\* Topic extraction, from pasted text and from a PDF.
TopicsNext ==
    \/ Start(OneChapter)
    \/ \E c \in Ids : ToggleChapter(c)
    \/ \E c \in Ids, m \in {"extract-text", "extract-pdf"} : OpenChapterModal(c, m)
    \/ \E c \in Ids : CloseChapterModal(c)
    \/ \E c \in Ids, t \in Texts : TypeSolverText(c, t)
    \/ \E c \in Ids : TextExtraction(c)
    \/ \E c \in Ids : PdfUpload(c)
    \/ \E i \in DOMAIN pending : PdfParsed(i)
    \/ \E i \in DOMAIN pending : PdfRejected(i)
    \/ \E i \in DOMAIN pending, res \in TopicResults : TopicsSettle(i, res)
    \/ \E c \in Ids : AddTopics(c)

SpecTopics == Init /\ [][TopicsNext]_vars

\* Focused ideas of a chapter: the exercises modal.
IdeaNext ==
    \/ Start(OneChapter)
    \/ \E c \in Ids : ToggleChapter(c)
    \/ \E c \in Ids : OpenChapterModal(c, "exercises")
    \/ \E c \in Ids : CloseChapterModal(c)
    \/ \E c \in Ids, t \in Texts : TypeFocusedIdea(c, t)
    \/ \E c \in Ids : GenerateExercises(c, TRUE)
    \/ \E i \in DOMAIN pending, res \in ExerciseResults : ExercisesSettle(i, res)

SpecIdea == Init /\ [][IdeaNext]_vars

\* Focused ideas of the final exam: the exam modal.
ExamNext ==
    \/ Start(OneChapter)
    \/ OpenExamModal
    \/ CloseExamModal
    \/ \E t \in Texts : TypeExamIdea(t)
    \/ GenerateExam(TRUE)
    \/ \E i \in DOMAIN pending, res \in ExerciseResults : ExamSettles(i, res)
    \/ \E i \in DOMAIN pending : ExamSettlesNull(i)
    \/ \E id \in Ids : DeleteExamSet(id)

SpecExam == Init /\ [][ExamNext]_vars

\* The Course's lifecycle: chapter, section and exam calls in flight while the
\* Course is reset and generated again.
LifeNext ==
    \/ Start(OneChapter)
    \/ Reset
    \/ \E c \in Ids : ToggleChapter(c)
    \/ \E s \in Ids : ToggleSection(s)
    \/ \E s \in Ids : GenerateContent(s)
    \/ \E i \in DOMAIN pending, res \in ContentResults : ContentSettles(i, res)
    \/ \E c \in Ids : GenerateExercises(c, FALSE)
    \/ \E i \in DOMAIN pending, res \in ExerciseResults : ExercisesSettle(i, res)
    \/ GenerateExam(FALSE)
    \/ \E i \in DOMAIN pending, res \in ExerciseResults : ExamSettles(i, res)
    \/ \E i \in DOMAIN pending : ExamSettlesNull(i)

SpecLife == Init /\ [][LifeNext]_vars

\* Images for the solver: files of each size chosen, problems submitted.
UploadNext ==
    \/ Start(OneChapter)
    \/ \E c \in Ids : ToggleChapter(c)
    \/ \E c \in Ids : OpenChapterModal(c, "solver")
    \/ \E c \in Ids : CloseChapterModal(c)
    \/ \E c \in Ids, size \in FileSizes : FileUpload(c, size)
    \/ \E c \in Ids : SolverSubmit(c)
    \/ \E i \in DOMAIN pending, res \in SolverResults : SolverSettles(i, res)

SpecUpload == Init /\ [][UploadNext]_vars

\* tryParseJson run on valid JSON: the text of the response to an outline
\* request has arrived, and is cleaned.
InitJson ==
    /\ apiKey = "key"
    /\ outline = NoOutline
    /\ topic = "txt"
    /\ numChapters = 5
    /\ language = "English"
    /\ appLoading = TRUE
    /\ error = Null
    /\ nextId = 1
    /\ ov = InitOutlineView
    /\ cv = <<>>
    /\ sv = <<>>
    /\ \E text \in JsonTexts : pending = <<[kind |-> "response", text |-> text]>>
    /\ lastSet = "none"

\* the first two statements of tryParseJson
CleanResponse(i) ==
    /\ pending[i].kind = "response"
    /\ pending' = [pending EXCEPT ![i] =
            [kind |-> "cleaned", jsonString |-> pending[i].text,
             text |-> cleanedString(pending[i].text)]]
    /\ lastSet' = "none"
    /\ UNCHANGED <<appVars, outline, nextId, ov, cv, sv>>

JsonNext == \E i \in DOMAIN pending : CleanResponse(i)

SpecJson == InitJson /\ [][JsonNext]_vars

\* Outline generation on every parsed value, with the chapter count typed.
OutlineNext ==
    \/ Start(ParsedResponses)
    \/ \E value \in TypedNumbers : SetNumChapters(value)
    \/ \E i \in DOMAIN pending, parsed \in ParsedResponses :
            OutlineSettlesRejected(i, parsed)
    \/ Reset

SpecOutline == Init /\ [][OutlineNext]_vars

\* Everything that takes an id from the allocator: outlines, exercise, exam
\* and solver sets, topics added as sections, images; with deletions and
\* resets.  The user opens chapters and sections and starts a call when no
\* call of the Course on display is in flight; calls of a Course that was
\* reset may still be.
NoLiveCall == \A i \in DOMAIN pending : pending[i].orphan

IdsNext ==
    \/ Start(OneChapter)
    \/ Reset
    \/ \E c \in Ids : c \in DOMAIN cv /\ ~cv[c].isOpen /\ ToggleChapter(c)
    \/ \E s \in Ids : s \in DOMAIN sv /\ ~sv[s].isOpen /\ ToggleSection(s)
    \/ \E c \in Ids : NoLiveCall /\ GenerateExercises(c, FALSE)
    \/ \E i \in DOMAIN pending : ExercisesSettle(i, "ok")
    \/ \E c \in Ids, id \in Ids : DeleteExerciseSet(c, id)
    \/ NoLiveCall /\ GenerateExam(FALSE)
    \/ \E i \in DOMAIN pending : ExamSettles(i, "ok")
    \/ \E id \in Ids : DeleteExamSet(id)
    \/ \E c \in Ids, m \in {"extract-text", "solver"} : OpenChapterModal(c, m)
    \/ \E c \in Ids : TypeSolverText(c, "txt")
    \/ \E c \in Ids : NoLiveCall /\ TextExtraction(c)
    \/ \E i \in DOMAIN pending : TopicsSettle(i, "topics")
    \/ \E c \in Ids : AddTopics(c)
    \/ \E c \in Ids : NoLiveCall /\ SolverSubmit(c)
    \/ \E i \in DOMAIN pending : SolverSettles(i, "solution")
    \/ \E c \in Ids, id \in Ids : DeleteSolverSet(c, id)
    \/ \E s \in Ids : OpenImageModal(s)
    \/ \E s \in Ids : NoLiveCall /\ GenerateImage(s)
    \/ \E i \in DOMAIN pending : ImageSettles(i)

SpecIds == Init /\ [][IdsNext]_vars

\* Deleting sets.  The delete handlers are filters of a sequence, run here on
\* Courses whose sequences of sets are drawn from the sequences over a few
\* ids, equal ids within a sequence and across sequences included.
TwoChapters == CHOOSE r \in OutlineResponses : Len(r.chapters) = 2

\* ids of the sets drawn, after the ids of the chapters and sections
SetIds == (IdsNeeded(TwoChapters) + 1)..(IdsNeeded(TwoChapters) + MaxSets)

SeqsUpTo(S, n) == UNION { [1..k -> S] : k \in 0..n }

\* an ExerciseSet and a SolverSet with the given id
exerciseSet(id) == [id |-> id, focusedIdea |-> "", exercises |-> <<"exercise">>]
solverSet(id) ==
    [id |-> id, userInput |-> [type |-> "text", content |-> "txt"],
     solution |-> "solution"]

\* the Course of two chapters in which the sequence named by kind has the
\* sets with the given ids and every other sequence a set with the first id
courseWith(kind, ids) ==
    LET base == buildOutline(TwoChapters, 1)
        first == IdsNeeded(TwoChapters) + 1
        others == <<first>>
        of(k) == IF k = kind THEN ids ELSE others
        ex(seq) == [i \in DOMAIN seq |-> exerciseSet(seq[i])]
        so(seq) == [i \in DOMAIN seq |-> solverSet(seq[i])]
    IN [title |-> base.title,
        chapters |->
            [i \in DOMAIN base.chapters |->
                [base.chapters[i] EXCEPT
                    !.exerciseSets = ex(IF i = 1 THEN of("exercises") ELSE others),
                    !.solverSets = so(IF i = 1 THEN of("solver") ELSE others)]],
        examSets |-> ex(of("exam"))]

InitDelete ==
    /\ apiKey = "key"
    /\ \E kind \in {"exercises", "solver", "exam"}, ids \in SeqsUpTo(SetIds, MaxSets) :
            outline = courseWith(kind, ids)
    /\ topic = "txt"
    /\ numChapters = 5
    /\ language = "English"
    /\ appLoading = FALSE
    /\ error = Null
    /\ nextId = IdsNeeded(TwoChapters) + MaxSets + 1
    /\ ov = InitOutlineView
    /\ cv = [c \in ChapterIdsOf(buildOutline(TwoChapters, 1)) |->
                [InitChapterView EXCEPT !.isOpen = TRUE]]
    /\ sv = [x \in SectionIdsOf(buildOutline(TwoChapters, 1)) |-> InitSectionView]
    /\ pending = <<>>
    /\ lastSet = "none"

DeleteNext ==
    \/ \E c \in Ids, id \in SetIds : DeleteExerciseSet(c, id)
    \/ \E c \in Ids, id \in SetIds : DeleteSolverSet(c, id)
    \/ \E id \in SetIds : DeleteExamSet(id)

SpecDelete == InitDelete /\ [][DeleteNext]_vars

-----------------------------------------------------------------------------
(* Chapter-level appends: what a usable result does to the sequence *)

\* the exercise sets of chapter c in Course o
ExerciseSetsOf(o, c) == ChapterById(o, c).exerciseSets

\* the solver sets of chapter c in Course o
SolverSetsOf(o, c) == ChapterById(o, c).solverSets

\* sequence after is sequence before with exactly one element added at the end
AppendsOne(before, after) ==
    /\ Len(after) = Len(before) + 1
    /\ SubSeq(after, 1, Len(before)) = before

\* C1: when an exercise or solver call of a chapter resolves with a usable
\* result, the chapter's sequence after the handler is the sequence as it was
\* immediately before the handler with exactly one new element at the end,
\* whatever was added or deleted while the call was in flight.
C1_AppendToCurrent ==
    [][\A i \in DOMAIN pending :
        /\ (ExercisesSettle(i, "ok") /\ pending[i].cid \in ChapterIdsOf(outline))
              => AppendsOne(ExerciseSetsOf(outline, pending[i].cid),
                            ExerciseSetsOf(outline', pending[i].cid))
        /\ (SolverSettles(i, "solution") /\ pending[i].cid \in ChapterIdsOf(outline))
              => AppendsOne(SolverSetsOf(outline, pending[i].cid),
                            SolverSetsOf(outline', pending[i].cid))]_vars

-----------------------------------------------------------------------------
(* Failed calls *)

\* the step in which the handler of call i runs on a failure result: the
\* service's error string, its empty fallback, no text, or null
FailureSettles(i) ==
    \/ OutlineSettlesNull(i)
    \/ ContentSettles(i, ContentError)
    \/ ExercisesSettle(i, "empty") \/ ExercisesSettle(i, "null")
    \/ ExamSettles(i, "empty") \/ ExamSettlesNull(i)
    \/ SolverSettles(i, SolverError) \/ SolverSettles(i, "")
    \/ ImageSettlesNull(i)

\* C2: for every kind of call, when the call fails the Course after its
\* handler has completed is identical to the Course immediately before it.
C2_FailureLeavesCourse ==
    [][\A i \in DOMAIN pending : FailureSettles(i) => outline' = outline]_vars

\* C8: when the generation of a chapter's or the exam's exercise set fails
\* (the service returns an empty exercises array) nothing is appended: every
\* chapter's exerciseSets and the Course's examSets are as they were.
C8_EmptyResultAppendsNothing ==
    [][\A i \in DOMAIN pending :
        (outline # NoOutline /\ (ExercisesSettle(i, "empty") \/ ExamSettles(i, "empty")))
        => /\ outline'.examSets = outline.examSets
           /\ \A c \in ChapterIdsOf(outline) :
                ExerciseSetsOf(outline', c) = ExerciseSetsOf(outline, c)]_vars

-----------------------------------------------------------------------------
(* Section content *)

ContentOf(o, s) == SectionById(o, s).content

\* C3: the content of a section goes from absent to present at most once:
\* content that is present is never assigned again, and no second content
\* call for the section is applied, whatever is collapsed and reopened while
\* a content call is pending.
C3_ContentSetOnce ==
    [][/\ \A s \in SectionIdsOf(outline) \cap SectionIdsOf(outline') :
            ContentOf(outline, s) # Null => ContentOf(outline', s) = ContentOf(outline, s)
       /\ \A i \in DOMAIN pending, res \in ContentResults :
            (ContentSettles(i, res) /\ pending[i].sid \in SectionIdsOf(outline))
            => ContentOf(outline, pending[i].sid) = Null]_vars

-----------------------------------------------------------------------------
(* Targeted mutation as a function of the Course on display *)

\* the ids of the sets the chapters of Course o hold
SetIdsOf(o) ==
    UNION { { c.exerciseSets[k].id : k \in DOMAIN c.exerciseSets }
            \cup { c.solverSets[k].id : k \in DOMAIN c.solverSets } :
            c \in Range(o.chapters) }

\* transformations of a chapter the handlers can build in this state: the
\* append of an exercise set and of a solver set, new sections, the deletion
\* of a set
ChapterUpdaters ==
    { exercisesUpdater(Call("exercises", 0, 0, <<>>, "", NoInput), "ok", nextId),
      solverUpdater(Call("solver", 0, 0, <<>>, "", NoInput), "solution", nextId),
      [kind |-> "addSections", newSections |-> newSections(<<"topic">>, nextId)] }
    \cup { [kind |-> "deleteExerciseSet", id |-> id] : id \in SetIdsOf(outline) }
    \cup { [kind |-> "deleteSolverSet", id |-> id] : id \in SetIdsOf(outline) }

\* transformations of a section the handlers can build in this state
SectionUpdaters ==
    { contentUpdater(res) : res \in ContentResults }
    \cup { imageUpdater(Call("image", 0, 0, <<>>, idea, NoInput), ImageData, nextId) :
            idea \in Texts }

\* C4: for every chapter id present in the Course and every transformation
\* f, updateChapter(id, f) replaces exactly the matching chapter by
\* f(chapter): every other chapter is the same value at the same position,
\* and the Course's title and examSets are unchanged.
C4_UpdateChapterFrame ==
    outline # NoOutline =>
        \A c \in ChapterIdsOf(outline), f \in ChapterUpdaters :
            \A after \in { updateChapter(outline, c, f) } :
            /\ after.title = outline.title
            /\ after.examSets = outline.examSets
            /\ DOMAIN after.chapters = DOMAIN outline.chapters
            /\ \A k \in DOMAIN outline.chapters :
                after.chapters[k] =
                    IF outline.chapters[k].id = c
                    THEN applyChapterUpdater(f, outline.chapters[k])
                    ELSE outline.chapters[k]

\* an updateChapter call has just replaced a chapter of a Course of two
\* chapters, one of them with an exercise set
C4_ChapterReplaced ==
    /\ outline # NoOutline /\ lastSet = "hit"
    /\ Len(outline.chapters) = 2
    /\ \E c \in ChapterIdsOf(outline) : ExerciseSetsOf(outline, c) # <<>>

\* the step in which a settled call hands updateChapter the id of a chapter
\* that the Course does not hold
AbsentIdUpdate ==
    /\ outline # NoOutline
    /\ \E i \in DOMAIN pending :
        /\ pending[i].cid \notin ChapterIdsOf(outline)
        /\ \/ \E res \in ExerciseResults : truthy(res) /\ ExercisesSettle(i, res)
           \/ \E res \in SolverResults : truthy(res) /\ SolverSettles(i, res)
           \/ \E res \in ContentResults : ContentSettles(i, res)
           \/ ImageSettles(i)

\* the step calls updateChapter on a Course
UpdateChapterCalled == lastSet' \in {"hit", "miss"}

\* updateChapter on the Course a step finds, for the ids it does not hold:
\* the value that comes back is the value that went in
AbsentIdSameValue ==
    outline # NoOutline =>
        \A c \in Ids \ ChapterIdsOf(outline), f \in ChapterUpdaters :
            updateChapter(outline, c, f) = outline

\* C5 as stated: for every chapter id not present in the Course,
\* updateChapter(id, f) is a no-op, f is never applied and the result is the
\* very same Course object as the input, not a rebuilt copy.
C5_AbsentIdSameObject ==
    [][/\ UpdateChapterCalled => AbsentIdSameValue
       /\ AbsentIdUpdate =>
            outline' = outline /\ nextId' = nextId /\ lastSet' \notin NewObject]_vars

\* C5: for every chapter id not present in the Course, updateChapter(id, f)
\* leaves the Course's value as it is: f is applied to no chapter and draws
\* no id, and the result has the same title, the same chapters in the same
\* order and the same examSets as the input (in a Course object built anew).
C5_AbsentIdSameValue ==
    [][/\ UpdateChapterCalled => AbsentIdSameValue
       /\ AbsentIdUpdate => outline' = outline /\ nextId' = nextId]_vars

\* an updateChapter call has just run on a Course that held no chapter of
\* its id: a call of a Course that was reset settled into the next Course
C5_AbsentIdUpdated ==
    outline # NoOutline /\ lastSet = "miss"

\* C6: updateSection(chapterId, sectionId, f) replaces only the section
\* sectionId inside the chapter chapterId by f(section); the other sections
\* of the chapter keep their value and position, the chapter's exerciseSets
\* and solverSets and every other chapter are unchanged, and when the chapter
\* id or the section id is absent no section changes.
C6_UpdateSectionFrame ==
    outline # NoOutline =>
        \A c \in Ids, s \in Ids, f \in SectionUpdaters :
            \A after \in { updateSection(outline, c, s, f) } :
            /\ after.title = outline.title
            /\ after.examSets = outline.examSets
            /\ DOMAIN after.chapters = DOMAIN outline.chapters
            /\ \A k \in DOMAIN outline.chapters :
                LET old == outline.chapters[k]
                    new == after.chapters[k] IN
                /\ new.id = old.id /\ new.title = old.title
                /\ new.exerciseSets = old.exerciseSets
                /\ new.solverSets = old.solverSets
                /\ DOMAIN new.sections = DOMAIN old.sections
                /\ \A j \in DOMAIN old.sections :
                    new.sections[j] =
                        IF old.id = c /\ old.sections[j].id = s
                        THEN applySectionUpdater(f, old.sections[j])
                        ELSE old.sections[j]

\* an updateSection call has just given content to one of the two sections
\* of a chapter, the other one being without content
C6_SectionReplaced ==
    /\ outline # NoOutline /\ lastSet = "hit"
    /\ \E k \in DOMAIN outline.chapters :
        \E i, j \in DOMAIN outline.chapters[k].sections :
            /\ outline.chapters[k].sections[i].content # Null
            /\ outline.chapters[k].sections[j].content = Null

-----------------------------------------------------------------------------
(* Calls on different nodes *)

\* the results the call of a handler may settle with
ResultsOf(kind) ==
    CASE kind = "exercises" -> ExerciseResults
      [] kind = "exam"      -> ExerciseResults
      [] kind = "solver"    -> SolverResults
      [] kind = "content"   -> ContentResults
      [] kind = "image"     -> ImageResults

\* the node a call's handler updates: a section, a chapter, or the Course (0)
TargetOf(call) ==
    CASE call.kind \in {"content", "image"}    -> call.sid
      [] call.kind \in {"exercises", "solver"} -> call.cid
      [] OTHER                                 -> 0

\* the target of a call is in Course o
TargetIn(o, call) ==
    /\ o # NoOutline
    /\ call.kind \in {"exercises", "solver"} => call.cid \in ChapterIdsOf(o)
    /\ call.kind \in {"content", "image"} =>
        /\ call.cid \in ChapterIdsOf(o)
        /\ call.sid \in SectionIdsOfChapter(ChapterById(o, call.cid))

\* what a chapter's exercise sets may have been when a call was dispatched:
\* a set that has been deleted since
Snapshot == <<[id |-> 0, focusedIdea |-> "", exercises |-> <<"exercise">>]>>

\* the calls that update the Course and are or can be in flight in this
\* state: the ones in flight, an exercise call for each chapter on display
\* and an exam call
UpdateCalls ==
    { call \in Range(pending) : call.kind # "outline" }
    \cup { Call("exercises", c, 0, Snapshot, "", NoInput) : c \in ChapterIdsOf(outline) }
    \cup { Call("exam", 0, 0, <<>>, "", NoInput) }

\* the effect of a call that settled with res, id being its new id, is in o
EffectIn(o, call, res, id) ==
    CASE call.kind = "exercises" ->
            truthy(res) => \E k \in DOMAIN ExerciseSetsOf(o, call.cid) :
                                ExerciseSetsOf(o, call.cid)[k].id = id
      [] call.kind = "solver" ->
            truthy(res) => \E k \in DOMAIN SolverSetsOf(o, call.cid) :
                                /\ SolverSetsOf(o, call.cid)[k].id = id
                                /\ SolverSetsOf(o, call.cid)[k].solution = res
      [] call.kind = "content" -> ContentOf(o, call.sid) = res
      [] call.kind = "image" ->
            res # Null => \E k \in DOMAIN SectionById(o, call.sid).images :
                                SectionById(o, call.sid).images[k].id = id
      [] call.kind = "exam" ->
            res # "null" => \E k \in DOMAIN o.examSets : o.examSets[k].id = id

\* the Course after call a resolved with ra and then call b with rb
ResolveBoth(o, a, ra, ida, b, rb, idb) ==
    courseAfter(courseAfter(o, a, ra, ida), b, rb, idb)

\* C7: for any two calls in flight that target different nodes, the final
\* Course is the same whichever call resolves first, and the effects of both
\* calls are present in it.
C7_DifferentNodesCommute ==
    \A pair \in { p \in SUBSET UpdateCalls : Cardinality(p) = 2 } :
      \A a \in { CHOOSE call \in pair : TRUE } : \A b \in pair \ {a} :
        (TargetOf(a) # TargetOf(b) /\ TargetIn(outline, a) /\ TargetIn(outline, b)) =>
            \A ra \in ResultsOf(a.kind), rb \in ResultsOf(b.kind) :
                \A ab \in { ResolveBoth(outline, a, ra, nextId, b, rb, nextId + 1) } :
                    /\ ab = ResolveBoth(outline, b, rb, nextId + 1, a, ra, nextId)
                    /\ EffectIn(ab, a, ra, nextId)
                    /\ EffectIn(ab, b, rb, nextId + 1)

\* content calls of two different sections of the Course are in flight
C7_TwoSectionsInFlight ==
    \E i, j \in DOMAIN pending :
        /\ pending[i].kind = "content" /\ pending[j].kind = "content"
        /\ pending[i].sid # pending[j].sid
        /\ TargetIn(outline, pending[i]) /\ TargetIn(outline, pending[j])

-----------------------------------------------------------------------------
(* Transient input and busy flags *)

\* C9: when a call resolves with an empty, null or failure result, the
\* transient input of its action (focused idea, solver text, solver image)
\* is left as the user entered it; it is cleared only on a usable result.
C9_FailureKeepsInput ==
    [][\A i \in DOMAIN pending :
        /\ (/\ ~pending[i].orphan
            /\ \/ SolverSettles(i, SolverError) \/ SolverSettles(i, "")
               \/ ExercisesSettle(i, "empty") \/ ExercisesSettle(i, "null"))
           => /\ cv'[pending[i].cid].focusedIdea = cv[pending[i].cid].focusedIdea
              /\ cv'[pending[i].cid].solverText = cv[pending[i].cid].solverText
              /\ cv'[pending[i].cid].solverImage = cv[pending[i].cid].solverImage
        /\ (~pending[i].orphan /\ ImageSettlesNull(i))
           => sv'[pending[i].sid].focusedIdea = sv[pending[i].sid].focusedIdea
        /\ (~pending[i].orphan /\ (ExamSettles(i, "empty") \/ ExamSettlesNull(i)))
           => ov'.focusedIdea = ov.focusedIdea]_vars

\* the task keys a chapter call in flight keeps busy
KeysOf(call) ==
    CASE call.kind = "exercises" -> {"exercises"}
      [] call.kind = "solver"    -> {"solver"}
      [] call.kind = "pdf"       -> {"pdfParse"}
      [] call.kind = "topics"    ->
            IF call.fromPdf THEN {"topicExtraction", "pdfParse"} ELSE {"topicExtraction"}
      [] OTHER                   -> {}

\* a call of one of the kinds, dispatched by a component still mounted, is
\* in flight for chapter cid and section sid
InFlight(kinds, cid, sid) ==
    \E i \in DOMAIN pending :
        /\ pending[i].kind \in kinds /\ ~pending[i].orphan
        /\ pending[i].cid = cid /\ pending[i].sid = sid

\* C10: every action sets its busy flag on trigger and, once its call has
\* settled with any outcome, the flag is cleared: a busy flag is set only
\* while a call of its action is still in flight, none stays set for ever.
C10_BusyOnlyWhileInFlight ==
    /\ appLoading => InFlight({"outline"}, 0, 0)
    /\ ov.examLoading => InFlight({"exam"}, 0, 0)
    /\ \A c \in DOMAIN cv, k \in Keys :
        cv[c].isLoading[k] =>
            \E i \in DOMAIN pending :
                ~pending[i].orphan /\ pending[i].cid = c /\ k \in KeysOf(pending[i])
    /\ \A s \in DOMAIN sv :
        /\ sv[s].isLoading => \E c \in Ids : InFlight({"content"}, c, s)
        /\ sv[s].isImageLoading => \E c \in Ids : InFlight({"image"}, c, s)

-----------------------------------------------------------------------------
(* Outline generation: what its settling does to the App's state *)

\* the outline call at position i settles without a Course
OutlineFails(i) == OutlineSettlesNull(i) \/ OutlineSettlesThrows(i)

\* C11: when the outline call settles with null or by throwing, the Course was
\* absent and stays absent, an error message is set and the loading flag is
\* cleared; when it settles with a Course, the Course is stored, the error is
\* still null and the loading flag is cleared.
C11_OutlineSettles ==
    [][\A i \in DOMAIN pending :
          pending[i].kind = "outline" =>
            /\ OutlineFails(i) =>
                  /\ outline = NoOutline /\ outline' = NoOutline
                  /\ error' \in {OutlineError, UnexpectedError}
                  /\ ~appLoading'
            /\ (\E parsed \in OutlineResponses : OutlineSettlesOk(i, parsed)) =>
                  /\ outline' # NoOutline
                  /\ outline' \in { buildOutline(parsed, nextId) : parsed \in OutlineResponses }
                  /\ error' = Null
                  /\ ~appLoading']_vars

\* an outline call has failed: the form shows the error, nothing is loading
C11_OutlineFailed ==
    /\ outline = NoOutline
    /\ error = OutlineError
    /\ ~appLoading
    /\ \A i \in DOMAIN pending : pending[i].kind # "outline"

-----------------------------------------------------------------------------
(* The Course's lifecycle *)

\* a call dispatched under a Course that has since been reset settles
OrphanSettles ==
    \E i \in DOMAIN pending :
        /\ pending[i].orphan
        /\ pending[i].kind \in {"exercises", "content", "exam"}
        /\ pending' = RemoveAt(pending, i)

\* C12: the Course becomes non-null only by an outline call settling with a
\* Course and becomes null only by reset; a chapter, section or exam call that
\* was pending at reset and settles while the Course is absent leaves it absent.
C12_Lifecycle ==
    [][/\ (outline = NoOutline /\ outline' # NoOutline) =>
            \E i \in DOMAIN pending, parsed \in OutlineResponses :
                OutlineSettlesOk(i, parsed)
       /\ (outline # NoOutline /\ outline' = NoOutline) => Reset
       /\ (OrphanSettles /\ outline = NoOutline) => outline' = NoOutline]_vars

\* A call that was pending at reset has just settled on the absent Course:
\* its setOutline returned null, and it was not reset's, which empties the
\* topic.
C12_LateResultDropped ==
    /\ outline = NoOutline
    /\ lastSet = "null"
    /\ topic # ""

-----------------------------------------------------------------------------
(* Deleting a set *)

\* the positions of seq whose set has another id than id
Kept(seq, id) == { i \in DOMAIN seq : seq[i].id # id }

\* seq without its sets with that id, the others in their order: the k-th
\* element is the one at the k-th kept position
Remaining(seq, id) ==
    [k \in 1..Cardinality(Kept(seq, id)) |->
        seq[CHOOSE i \in Kept(seq, id) :
                Cardinality({ j \in Kept(seq, id) : j < i }) = k - 1]]

\* chapter c of the Course after the step is chapter c before it with the
\* exercise sets and solver sets given, and every other chapter, the title and
\* the exam sets are the same
ChapterSetsBecome(c, exerciseSets, solverSets) ==
    /\ outline'.title = outline.title
    /\ outline'.examSets = outline.examSets
    /\ DOMAIN outline'.chapters = DOMAIN outline.chapters
    /\ \A i \in DOMAIN outline.chapters :
        LET before == outline.chapters[i]
            after == outline'.chapters[i] IN
        IF before.id = c
        THEN after = [id |-> before.id, title |-> before.title,
                      sections |-> before.sections,
                      exerciseSets |-> exerciseSets, solverSets |-> solverSets]
        ELSE after = before

\* a delete step removes the sets with the id from its own sequence, keeps
\* the order of the others and leaves every other sequence alone
DeleteFilters ==
    /\ \A c \in ChapterIdsOf(outline), id \in SetIds :
        /\ DeleteExerciseSet(c, id) =>
                ChapterSetsBecome(c, Remaining(ExerciseSetsOf(outline, c), id),
                                  SolverSetsOf(outline, c))
        /\ DeleteSolverSet(c, id) =>
                ChapterSetsBecome(c, ExerciseSetsOf(outline, c),
                                  Remaining(SolverSetsOf(outline, c), id))
    /\ \A id \in SetIds :
        DeleteExamSet(id) =>
            /\ outline'.examSets = Remaining(outline.examSets, id)
            /\ outline'.title = outline.title
            /\ outline'.chapters = outline.chapters

\* the handlers' filters run with an id that no set of the sequence has
\* return the sequence as it is
AbsentIdKeepsAll ==
    /\ \A c \in ChapterIdsOf(outline), id \in SetIds :
        /\ (\A k \in DOMAIN ExerciseSetsOf(outline, c) :
                ExerciseSetsOf(outline, c)[k].id # id) =>
            updateChapter(outline, c, [kind |-> "deleteExerciseSet", id |-> id]) = outline
        /\ (\A k \in DOMAIN SolverSetsOf(outline, c) :
                SolverSetsOf(outline, c)[k].id # id) =>
            updateChapter(outline, c, [kind |-> "deleteSolverSet", id |-> id]) = outline
    /\ \A id \in SetIds :
        (\A k \in DOMAIN outline.examSets : outline.examSets[k].id # id) =>
            Filter(outline.examSets, id) = outline.examSets

\* C13: removing an exercise set, a solver set or an exam set by id yields the
\* same sequence without the element with that id, the remaining elements in
\* their order; with an id that no element has the sequence is unchanged; the
\* sets of the other kinds and of the other chapters are untouched.
C13_DeleteRemovesThatSet == []AbsentIdKeepsAll /\ [][DeleteFilters]_vars

\* the middle one of three exercise sets of the first chapter has been deleted
C13_MiddleSetDeleted ==
    /\ lastSet = "hit"
    /\ \E a, b \in SetIds :
        /\ b = a + 2
        /\ ExerciseSetsOf(outline, 1) = <<exerciseSet(a), exerciseSet(b)>>

-----------------------------------------------------------------------------
(* Ids *)

\* the places of Course o that carry an id: <<kind, chapter, section or set,
\* image>>, by position
Places(o) ==
    IF o = NoOutline THEN {}
    ELSE { <<"exam", 0, k, 0>> : k \in DOMAIN o.examSets }
         \cup UNION { LET c == o.chapters[i] IN
                        { <<"chapter", i, 0, 0>> }
                        \cup { <<"section", i, j, 0>> : j \in DOMAIN c.sections }
                        \cup UNION { { <<"image", i, j, k>> :
                                            k \in DOMAIN c.sections[j].images } :
                                      j \in DOMAIN c.sections }
                        \cup { <<"exercises", i, k, 0>> : k \in DOMAIN c.exerciseSets }
                        \cup { <<"solver", i, k, 0>> : k \in DOMAIN c.solverSets } :
                      i \in DOMAIN o.chapters }

\* the id at a place
IdAt(o, p) ==
    CASE p[1] = "exam" -> o.examSets[p[3]].id
      [] p[1] = "chapter" -> o.chapters[p[2]].id
      [] p[1] = "section" -> o.chapters[p[2]].sections[p[3]].id
      [] p[1] = "image" -> o.chapters[p[2]].sections[p[3]].images[p[4]].id
      [] p[1] = "exercises" -> o.chapters[p[2]].exerciseSets[p[3]].id
      [] p[1] = "solver" -> o.chapters[p[2]].solverSets[p[3]].id

\* C15: with an allocator that returns a fresh id on each call, the ids of the
\* chapters, sections, images, exercise sets, solver sets and exam sets of the
\* Course are pairwise distinct across the whole document.
C15_IdsDistinct ==
    \A places \in { Places(outline) } :
        Cardinality({ IdAt(outline, p) : p \in places }) = Cardinality(places)

\* a Course generated after a reset holds a set whose call has settled
C15_SecondCourseWithSet ==
    /\ outline # NoOutline
    /\ 1 \notin ChapterIdsOf(outline)
    /\ \E p \in Places(outline) : p[1] \in {"exam", "exercises", "solver", "image"}

-----------------------------------------------------------------------------
(* The Course that outline generation returns *)

\* the outline call settles with a Course
CourseStored == outline = NoOutline /\ outline' # NoOutline

\* a Course with nothing generated in it yet
Blank(o) ==
    /\ o.title # ""
    /\ o.examSets = <<>>
    /\ \A i \in DOMAIN o.chapters :
        /\ o.chapters[i].exerciseSets = <<>>
        /\ o.chapters[i].solverSets = <<>>
        /\ \A j \in DOMAIN o.chapters[i].sections :
            /\ o.chapters[i].sections[j].content = Null
            /\ o.chapters[i].sections[j].images = <<>>

\* C16: every Course returned by outline generation has a non-empty title,
\* empty examSets, in every chapter empty exerciseSets and solverSets, and in
\* every section no content and no images, whatever else the response carried.
C16_OutlineBlank == [][CourseStored => Blank(outline')]_vars

\* the Course of a response that carried sets and other fields of its own
C16_ExtraFieldsCourse ==
    /\ outline # NoOutline
    /\ "author" \in DOMAIN outline
    /\ lastSet = "course"

\* C17: a Course returned by outline generation called with chapter count n
\* has exactly n chapters, each with at least one section.
C17_ChaptersAsRequested ==
    [][\A i \in DOMAIN pending :
          (pending[i].kind = "outline" /\ CourseStored) =>
            /\ Len(outline'.chapters) = pending[i].input.numChapters
            /\ \A k \in DOMAIN outline'.chapters :
                    Len(outline'.chapters[k].sections) >= 1]_vars

\* C18: every outline call is dispatched with a non-empty topic and a chapter
\* count in 1..20.
C18_ChapterCountInRange ==
    \A i \in DOMAIN pending :
        pending[i].kind = "outline" =>
            /\ pending[i].input.content # ""
            /\ pending[i].input.numChapters \in 1..20

-----------------------------------------------------------------------------
(* The solver's image *)

\* the data URL of the file that is one byte over 4 MB
Oversized == DataUrlOf(4 * 1024 * 1024 + 1)

\* the oversized file is not the solver image of any chapter, not the input
\* of any solver call in flight and not the input of any solver set
OversizedNowhere ==
    /\ \A c \in DOMAIN cv : cv[c].solverImage # Oversized
    /\ \A i \in DOMAIN pending :
            pending[i].kind = "solver" => pending[i].input.content # Oversized
    /\ \A c \in ChapterIdsOf(outline) :
        \A k \in DOMAIN SolverSetsOf(outline, c) :
            SolverSetsOf(outline, c)[k].userInput.content # Oversized

\* choosing a file of more than 4 MB raises the alert, empties the file input,
\* leaves the solver image as it was and dispatches nothing; a file of 4 MB or
\* less becomes the solver image
UploadChecksSize ==
    \A c \in DOMAIN cv, size \in FileSizes :
        FileUpload(c, size) =>
            IF size > 4 * 1024 * 1024
            THEN /\ cv'[c].uploadAlert
                 /\ cv'[c].fileInput = ""
                 /\ cv'[c].solverImage = cv[c].solverImage
                 /\ pending' = pending
            ELSE /\ cv'[c].solverImage = DataUrlOf(size)
                 /\ ~cv'[c].uploadAlert

\* C19: a solver image file of more than 4*1024*1024 bytes is rejected before
\* any call is made: the user is notified, the file input is cleared, the file
\* is never the solver image and never sent in a solver call; a file of
\* exactly 4*1024*1024 bytes is accepted.
C19_OversizedRejected == []OversizedNowhere /\ [][UploadChecksSize]_vars

\* a file of exactly 4 MB is the solver image, and a file chosen after it
\* has been rejected
C19_RejectedAfterExact ==
    \E c \in DOMAIN cv :
        /\ cv[c].uploadAlert
        /\ cv[c].fileInput = ""
        /\ cv[c].solverImage = DataUrlOf(4 * 1024 * 1024)

-----------------------------------------------------------------------------
(* The cleanup pass of tryParseJson *)

\* C20: the cleanup pass returns every valid JSON text as it is, character
\* for character, also when a string value holds a comma followed by a closing
\* bracket or a fence marker.
C20_CleanupKeepsValidJson ==
    \A i \in DOMAIN pending :
        pending[i].kind = "cleaned" => pending[i].text = pending[i].jsonString

-----------------------------------------------------------------------------
(* The services: from the request's settling to what the caller is given *)

\* the request's promise rejected: network, quota or credential failure
Rejected == [rejected |-> TRUE]

\* JSON.parse threw on the cleaned text
SyntaxError == [throws |-> "SyntaxError"]

\* a response whose text is text (Null: response.text is undefined) and whose
\* cleaned text JSON.parse turns into parsed
JsonResponse(text, parsed) == [text |-> text, parsed |-> parsed]

\* tryParseJson from the response on: the fallback when replace is called on
\* undefined or JSON.parse throws, and otherwise the parsed value
tryParseJson(response, fallback) ==
    IF response.text = Null \/ response.parsed = SyntaxError
    THEN fallback
    ELSE response.parsed

\* what a try block comes to: a value, or an exception thrown in it
Thrown == [thrown |-> TRUE]
Returned(value) == [thrown |-> FALSE, value |-> value]

\* try { body } catch { return fallback }
tryCatch(body, fallback) == IF body.thrown THEN Returned(fallback) ELSE body

\* the parsed values of the exercise request: exercises, none, JSON null, an
\* object without the field
ExerciseParsed ==
    { [exercises |-> <<"exercise">>], [exercises |-> <<"exercise", "exercise">>],
      [exercises |-> <<>>], NullParsed, [problems |-> <<"exercise">>] }

\* the parsed values of the topics request
TopicsParsed ==
    { [topics |-> <<"topic">>], [topics |-> <<"topic", "topic">>],
      [topics |-> <<>>], NullParsed, [titles |-> <<"topic">>] }

\* the service functions, and what their request may settle with
Services ==
    {"generateOutline", "generateSectionContent", "generateChapterExercises",
     "generateExam", "solveWithAI", "extractTopicsFromText", "generateImage"}

JsonResponses(parsedValues) ==
    { Rejected, JsonResponse(Null, SyntaxError) }
    \cup { JsonResponse("json", parsed) : parsed \in parsedValues \cup {SyntaxError} }

ResponsesOf(service) ==
    CASE service = "generateOutline" -> JsonResponses(ParsedResponses)
      [] service \in {"generateChapterExercises", "generateExam"} ->
            JsonResponses(ExerciseParsed)
      [] service = "extractTopicsFromText" -> JsonResponses(TopicsParsed)
      [] service \in {"generateSectionContent", "solveWithAI"} ->
            { Rejected, [text |-> "text"], [text |-> Null] }
      [] service = "generateImage" ->
            { Rejected, [generatedImages |-> <<ImageData>>], [generatedImages |-> <<>>] }

\* generateOutline from the settling of its request on
generateOutlineOf(response, first) ==
    tryCatch(IF response = Rejected THEN Thrown
             ELSE Returned(generateOutline(tryParseJson(response, NullParsed), first)),
             NoOutline)

\* generateSectionContent: return response.text, or the error string
generateSectionContent(response) ==
    tryCatch(IF response = Rejected THEN Thrown ELSE Returned(response.text),
             ContentError)

\* generateExercises, behind generateChapterExercises and generateExam
generateExercises(response) ==
    tryCatch(IF response = Rejected THEN Thrown
             ELSE Returned(tryParseJson(response, [exercises |-> <<>>])),
             [exercises |-> <<>>])

\* solveWithAI: return response.text, or the error string
solveWithAI(response) ==
    tryCatch(IF response = Rejected THEN Thrown ELSE Returned(response.text),
             SolverError)

\* the try block of extractTopicsFromText: result.topics throws on null and
\* is undefined on an object without the field
extractTopics(response) ==
    IF response = Rejected THEN Thrown
    ELSE LET result == tryParseJson(response, [topics |-> <<>>]) IN
         IF result = NullParsed THEN Thrown
         ELSE IF "topics" \in DOMAIN result THEN Returned(result.topics)
         ELSE Returned(NotAnArray)

\* a variant of extractTopicsFromText that reads result.topics after its try
extractTopicsFromTextReadsAfter(response) ==
    IF response = Rejected THEN Returned(<<>>) ELSE extractTopics(response)

extractTopicsFromText(response) == tryCatch(extractTopics(response), <<>>)

\* generateImage: generatedImages[0].image throws when no image came back
generateImage(response) ==
    tryCatch(IF response = Rejected \/ response.generatedImages = <<>> THEN Thrown
             ELSE Returned(response.generatedImages[1]),
             Null)

\* what the service gives its caller for the response
serviceOutcome(service, response) ==
    CASE service = "generateOutline" -> generateOutlineOf(response, 1)
      [] service = "generateSectionContent" -> generateSectionContent(response)
      [] service \in {"generateChapterExercises", "generateExam"} ->
            generateExercises(response)
      [] service = "solveWithAI" -> solveWithAI(response)
      [] service = "extractTopicsFromText" -> extractTopicsFromText(response)
      [] service = "generateImage" -> generateImage(response)

\* A service has been called and its request is on its way.
InitService ==
    /\ apiKey = "key"
    /\ outline = NoOutline
    /\ topic = "txt"
    /\ numChapters = 5
    /\ language = "English"
    /\ appLoading = FALSE
    /\ error = Null
    /\ nextId = 1
    /\ ov = InitOutlineView
    /\ cv = <<>>
    /\ sv = <<>>
    /\ \E service \in Services, type \in {"text", "image"} :
        /\ type = "image" => service = "solveWithAI"
        /\ pending = <<[kind |-> "request", service |-> service, type |-> type]>>
    /\ lastSet = "none"

\* the await of the request is over
RequestSettles(i, response) ==
    /\ pending[i].kind = "request"
    /\ response \in ResponsesOf(pending[i].service)
    /\ pending' = [pending EXCEPT ![i] =
            [kind |-> "settled", service |-> pending[i].service,
             type |-> pending[i].type, response |-> response]]
    /\ lastSet' = "none"
    /\ UNCHANGED <<appVars, outline, nextId, ov, cv, sv>>

\* the rest of the service function runs: its promise resolves or rejects
ServiceReturns(i) ==
    /\ pending[i].kind = "settled"
    /\ pending' = [pending EXCEPT ![i] =
            [kind |-> "returned", service |-> pending[i].service,
             type |-> pending[i].type, response |-> pending[i].response,
             outcome |-> serviceOutcome(pending[i].service, pending[i].response)]]
    /\ lastSet' = "none"
    /\ UNCHANGED <<appVars, outline, nextId, ov, cv, sv>>

AllResponses == UNION { ResponsesOf(service) : service \in Services }

ServiceNext ==
    \/ \E i \in DOMAIN pending, response \in AllResponses : RequestSettles(i, response)
    \/ \E i \in DOMAIN pending : ServiceReturns(i)

SpecService == InitService /\ [][ServiceNext]_vars

\* the request failed, or its response could not be parsed after cleanup
Failed(service, response) ==
    \/ response = Rejected
    \/ /\ service \in {"generateOutline", "generateChapterExercises", "generateExam",
                       "extractTopicsFromText"}
       /\ response.text = Null \/ response.parsed = SyntaxError

\* the service's value is its documented fallback
IsFallback(service, value) ==
    CASE service = "generateOutline" -> value = NoOutline
      [] service = "generateSectionContent" -> value = "Error: Could not generate content."
      [] service = "solveWithAI" -> value = "Error: Could not get a solution."
      [] service \in {"generateChapterExercises", "generateExam"} ->
            DOMAIN value = {"exercises"} /\ value.exercises = <<>>
      [] service = "extractTopicsFromText" -> value = <<>>
      [] service = "generateImage" -> value = Null

\* C21: no service call raises to its caller, whatever its request settles
\* with; when the request fails or the response cannot be parsed after
\* cleanup, the call resolves with its fallback: null for the outline, the
\* error string for section content and the solver, an object with an empty
\* exercises array for exercise sets, an empty list for topics, null for an
\* image.
C21_ServicesNeverRaise ==
    \A i \in DOMAIN pending :
        pending[i].kind = "returned" =>
            /\ ~pending[i].outcome.thrown
            /\ Failed(pending[i].service, pending[i].response) =>
                    IsFallback(pending[i].service, pending[i].outcome.value)

\* topic extraction has returned for a response that JSON.parse could not
\* parse even after the cleanup
C21_NullTopicsReturned ==
    \E i \in DOMAIN pending :
        /\ pending[i].kind = "returned"
        /\ pending[i].service = "extractTopicsFromText"
        /\ pending[i].response = JsonResponse("json", SyntaxError)

-----------------------------------------------------------------------------
(* Calls on one section: content and images *)

\* the response with one chapter of two sections
TwoSections ==
    { r \in OutlineResponses : Len(r.chapters) = 1 /\ Len(r.chapters[1].sections) = 2 }

\* Content and image calls of the sections of a chapter, the chapter opened
\* and closed (which unmounts its SectionViews while their calls are in
\* flight), its sections opened, the Course reset and generated again.
SectionCallsNext ==
    \/ Start(TwoSections)
    \/ Reset
    \/ \E c \in Ids : ToggleChapter(c)
    \/ \E s \in Ids : s \in DOMAIN sv /\ ~sv[s].isOpen /\ ToggleSection(s)
    \/ \E s \in Ids : GenerateContent(s)
    \/ \E i \in DOMAIN pending, res \in ContentResults : ContentSettles(i, res)
    \/ \E s \in Ids : OpenImageModal(s)
    \/ \E s \in Ids : GenerateImage(s)
    \/ \E i \in DOMAIN pending : ImageSettles(i)
    \/ \E i \in DOMAIN pending : ImageSettlesNull(i)

SpecSectionCalls == Init /\ [][SectionCallsNext]_vars

ImagesOf(o, s) == SectionById(o, s).images

\* C22: the images of a section only grow at their end: an image call that
\* returns null leaves every section's images as they are, a successful one
\* leaves its section's images as they were with exactly one image after
\* them, and no step removes, reorders or changes an image of a section.
C22_ImagesOnlyGrow ==
    [][/\ \A s \in SectionIdsOf(outline) \cap SectionIdsOf(outline') :
            \/ ImagesOf(outline', s) = ImagesOf(outline, s)
            \/ AppendsOne(ImagesOf(outline, s), ImagesOf(outline', s))
       /\ \A i \in DOMAIN pending :
            /\ ImageSettlesNull(i) => outline' = outline
            /\ (ImageSettles(i) /\ pending[i].sid \in SectionIdsOf(outline)) =>
                    /\ AppendsOne(ImagesOf(outline, pending[i].sid),
                                  ImagesOf(outline', pending[i].sid))
                    /\ \A s \in SectionIdsOf(outline) \ {pending[i].sid} :
                            ImagesOf(outline', s) = ImagesOf(outline, s)]_vars

\* a section holds two images, the second one appended after the first
C22_SecondImageAppended ==
    /\ lastSet = "hit"
    /\ \E s \in SectionIdsOf(outline) :
        /\ Len(ImagesOf(outline, s)) = 2
        /\ ImagesOf(outline, s)[1].id < ImagesOf(outline, s)[2].id

\* the content call at position i settles on a Course that holds its section
ContentApplied(i, res) ==
    /\ ContentSettles(i, res)
    /\ pending[i].sid \in SectionIdsOf(outline)

-----------------------------------------------------------------------------
(* Task keys of one chapter *)

\* The solver, the exercises modal and topic extraction from text in one
\* chapter: modals opened and closed while calls are in flight.
KeysNext ==
    \/ Start(OneChapter)
    \/ \E c \in Ids : c \in DOMAIN cv /\ ~cv[c].isOpen /\ ToggleChapter(c)
    \/ \E c \in Ids, m \in {"solver", "exercises", "extract-text"} : OpenChapterModal(c, m)
    \/ \E c \in Ids : CloseChapterModal(c)
    \/ \E c \in Ids : TypeSolverText(c, "txt")
    \/ \E c \in Ids : TypeFocusedIdea(c, "txt")
    \/ \E c \in Ids : SolverSubmit(c)
    \/ \E i \in DOMAIN pending : SolverSettles(i, "solution")
    \/ \E c \in Ids : GenerateExercises(c, TRUE)
    \/ \E i \in DOMAIN pending : ExercisesSettle(i, "ok")
    \/ \E c \in Ids : TextExtraction(c)
    \/ \E i \in DOMAIN pending : TopicsSettle(i, "none")

SpecKeys == Init /\ [][KeysNext]_vars

\* the modals from which the action of a call is triggered
ModalsOf(call) ==
    CASE call.kind = "exercises" -> {"exercises"}
      [] call.kind = "solver"    -> {"solver"}
      [] OTHER                   -> {"extract-text", "extract-pdf"}

\* the handler of the chapter call at position i runs after its await
ChapterCallSettles(i) ==
    \/ SolverSettles(i, "solution")
    \/ ExercisesSettle(i, "ok")
    \/ TopicsSettle(i, "none")

\* C24: the completion of an action with one task key leaves every other
\* key's busy flag as it is, leaves a modal open that the user opened for
\* another action, and leaves the input of other actions as typed: the
\* focused idea of the exercises when the solver or topic extraction
\* completes, the solver's text and image when the exercises complete, the
\* text in the extraction modal when the solver or the exercises complete.
C24_KeysIndependent ==
    [][\A i \in DOMAIN pending :
        (~pending[i].orphan /\ ChapterCallSettles(i)) =>
            \A before \in { cv[pending[i].cid] }, after \in { cv'[pending[i].cid] } :
                /\ \A k \in Keys \ KeysOf(pending[i]) :
                        after.isLoading[k] = before.isLoading[k]
                /\ before.modal \notin ModalsOf(pending[i]) => after.modal = before.modal
                /\ pending[i].kind # "exercises" => after.focusedIdea = before.focusedIdea
                /\ pending[i].kind # "solver" =>
                        /\ after.solverText = before.solverText
                        /\ after.solverImage = before.solverImage
                /\ (pending[i].kind \notin {"topics", "pdf"} /\ before.modal = "extract-text") =>
                        after.solverText = before.solverText]_vars

-----------------------------------------------------------------------------
(* One invocation per task key *)

\* the calls in flight that the mounted ChapterView of chapter c dispatched
\* and that keep task key k busy
InvocationsOf(c, k) ==
    { i \in DOMAIN pending :
        ~pending[i].orphan /\ pending[i].cid = c /\ k \in KeysOf(pending[i]) }

\* C25: for each task key of a chapter at most one invocation is in flight
\* at any time, and the key's busy flag is true whenever one is in flight;
\* this includes topicExtraction, triggered from pasted text and from a PDF.
C25_OneInvocationPerKey ==
    \A c \in DOMAIN cv, k \in Keys :
        /\ Cardinality(InvocationsOf(c, k)) <= 1
        /\ InvocationsOf(c, k) # {} => cv[c].isLoading[k]

-----------------------------------------------------------------------------
(* The App's form and reset *)

\* Outline generation on every parsed value, with the chapter count typed,
\* the language selected, and the Course reset.
AppNext ==
    \/ OutlineNext
    \/ \E l \in Languages : SetLanguage(l)

SpecApp == Init /\ [][AppNext]_vars

\* the step discards the Course
CourseDiscarded == outline # NoOutline /\ outline' = NoOutline

\* C26: reset sets the Course to absent, the topic to the empty string and
\* the error to null, and leaves the selected language, the chapter count,
\* the credential and the outline loading flag as they are.
C26_ResetFrame ==
    [][(Reset \/ CourseDiscarded) =>
            /\ outline' = NoOutline
            /\ topic' = ""
            /\ error' = "<null>"
            /\ language' = language
            /\ numChapters' = numChapters
            /\ apiKey' = apiKey
            /\ appLoading' = appLoading]_vars

\* the Course has just been reset with another language selected and
\* another chapter count typed than the initial ones
C26_ResetKeptSettings ==
    /\ lastSet = "null"
    /\ outline = NoOutline /\ topic = ""
    /\ language = "French"
    /\ numChapters = 2

-----------------------------------------------------------------------------
(* Results that arrive after the Course was replaced *)

\* the call at position i was triggered under a Course that has been reset
\* since: its OutlineView is unmounted, and a chapter or section call names a
\* chapter the Course does not hold
OfResetCourse(i) ==
    /\ pending[i].orphan
    /\ pending[i].kind \in {"exam", "exercises", "solver", "content", "image"}
    /\ pending[i].kind # "exam" => pending[i].cid \notin ChapterIdsOf(outline)

\* C27: the result of a generation call is applied only to the Course that
\* was current when the call was triggered: when an exam, exercise, solver,
\* content or image call of a Course that was reset settles after a new
\* Course has been generated, the new Course is not modified, and no exam set
\* is added to its examSets.
C27_LateResultNotApplied ==
    [][\A i \in DOMAIN pending :
        (/\ OfResetCourse(i)
         /\ outline # NoOutline
         /\ pending' = RemoveAt(pending, i)) =>
            /\ outline' = outline
            /\ outline'.examSets = outline.examSets]_vars

-----------------------------------------------------------------------------
(* Two calls on one section *)

\* pairs of positions of calls in flight that target the same section of the
\* Course, a content call and an image call or two image calls
SameSectionPairs ==
    { p \in (DOMAIN pending) \X (DOMAIN pending) :
        /\ p[1] < p[2]
        /\ pending[p[1]].kind \in {"content", "image"}
        /\ pending[p[2]].kind \in {"content", "image"}
        /\ "image" \in {pending[p[1]].kind, pending[p[2]].kind}
        /\ pending[p[1]].sid = pending[p[2]].sid
        /\ TargetIn(outline, pending[p[1]]) /\ TargetIn(outline, pending[p[2]]) }

\* the images generated by calls a and b that resolved with ra and rb
Generated(a, ra, b, rb) ==
    (IF a.kind = "image" /\ ra # Null THEN 1 ELSE 0)
    + (IF b.kind = "image" /\ rb # Null THEN 1 ELSE 0)

\* Course o, in which a resolved with ra under id ida and b with rb under id
\* idb, holds what both calls brought and every image the section held
BothIn(o, a, ra, ida, b, rb, idb) ==
    /\ EffectIn(o, a, ra, ida)
    /\ EffectIn(o, b, rb, idb)
    /\ \A before \in { ImagesOf(outline, a.sid) }, after \in { ImagesOf(o, a.sid) } :
        /\ Len(after) = Len(before) + Generated(a, ra, b, rb)
        /\ SubSeq(after, 1, Len(before)) = before

\* C28: two calls in flight that target the same section, a content call and
\* an image call or two image calls, both take effect in either resolution
\* order: afterwards the section holds the content and every image that was
\* generated, after the images it held before.
C28_SameSectionBothApply ==
    \A p \in SameSectionPairs :
      \A a \in { pending[p[1]] }, b \in { pending[p[2]] } :
        \A ra \in ResultsOf(a.kind), rb \in ResultsOf(b.kind) :
            /\ BothIn(ResolveBoth(outline, a, ra, nextId, b, rb, nextId + 1),
                      a, ra, nextId, b, rb, nextId + 1)
            /\ BothIn(ResolveBoth(outline, b, rb, nextId, a, ra, nextId + 1),
                      a, ra, nextId + 1, b, rb, nextId)

\* two image calls of one section of the Course are in flight, the section
\* holding an image already
C28_TwoImageCallsInFlight ==
    \E p \in SameSectionPairs :
        /\ pending[p[1]].kind = "image" /\ pending[p[2]].kind = "image"
        /\ ImagesOf(outline, pending[p[1]].sid) # <<>>

-----------------------------------------------------------------------------
(* The application's error message, loading flag and Course *)

\* C29: in every reachable state of the application, a non-null error message
\* implies that the Course is absent, and the outline loading flag set implies
\* that the Course is absent and the error message is null.
C29_ErrorAndLoadingWithoutCourse ==
    /\ error # Null => outline = NoOutline
    /\ appLoading => outline = NoOutline /\ error = Null

\* a Course was generated and reset, and a later outline call failed: the
\* error message is on display beside the form
C29_ErrorAfterReset ==
    /\ error = OutlineError
    /\ outline = NoOutline
    /\ ~appLoading
    /\ nextId > 1

-----------------------------------------------------------------------------
(* The chapters of a Course between its generation and its reset *)

\* Every operation on a Course of one or two chapters: exercise, solver and
\* exam sets appended and deleted, topics extracted and added as sections,
\* images added to sections, the Course reset and generated again.  As in
\* IdsNext, a call starts when no call of the Course on display is in flight.
ChaptersNext ==
    \/ Start(OutlineResponses)
    \/ Reset
    \/ \E c \in Ids : c \in DOMAIN cv /\ ~cv[c].isOpen /\ ToggleChapter(c)
    \/ \E s \in Ids : s \in DOMAIN sv /\ ~sv[s].isOpen /\ ToggleSection(s)
    \/ \E c \in Ids : NoLiveCall /\ GenerateExercises(c, FALSE)
    \/ \E i \in DOMAIN pending : ExercisesSettle(i, "ok")
    \/ \E c \in Ids, id \in Ids : DeleteExerciseSet(c, id)
    \/ NoLiveCall /\ GenerateExam(FALSE)
    \/ \E i \in DOMAIN pending : ExamSettles(i, "ok")
    \/ \E id \in Ids : DeleteExamSet(id)
    \/ \E c \in Ids, m \in {"extract-text", "solver"} : OpenChapterModal(c, m)
    \/ \E c \in Ids : TypeSolverText(c, "txt")
    \/ \E c \in Ids : NoLiveCall /\ TextExtraction(c)
    \/ \E i \in DOMAIN pending : TopicsSettle(i, "topics")
    \/ \E c \in Ids : AddTopics(c)
    \/ \E c \in Ids : NoLiveCall /\ SolverSubmit(c)
    \/ \E i \in DOMAIN pending : SolverSettles(i, "solution")
    \/ \E c \in Ids, id \in Ids : DeleteSolverSet(c, id)
    \/ \E s \in Ids : OpenImageModal(s)
    \/ \E s \in Ids : NoLiveCall /\ GenerateImage(s)
    \/ \E i \in DOMAIN pending : ImageSettles(i)

SpecChapters == Init /\ [][ChaptersNext]_vars

\* the ids and titles of the chapters of a Course, in order
ChapterHeads(o) ==
    [i \in DOMAIN o.chapters |-> <<o.chapters[i].id, o.chapters[i].title>>]

\* the ids of the sections of a chapter, in order
SectionIdSeq(c) == [j \in DOMAIN c.sections |-> c.sections[j].id]

\* the step adds the extracted topics of some chapter as sections
TopicsAdded == \E c \in Ids : AddTopics(c)

\* chapter i of the new Course is chapter i of the old one with sections
\* after its last
SectionsAppended(i) ==
    LET old == outline.chapters[i]
        new == outline'.chapters[i] IN
    /\ Len(new.sections) > Len(old.sections)
    /\ SubSeq(new.sections, 1, Len(old.sections)) = old.sections
    /\ new = [old EXCEPT !.sections = new.sections]

\* C30: in every step from a Course to a Course (after its generation, before
\* its reset) the sequence of chapter ids and titles stays as it is, and so
\* does the sequence of section ids of every chapter, unless the step adds
\* extracted topics as sections: then one chapter gets sections after its
\* last, its other fields and its earlier sections as before, and every other
\* chapter is left as it is.
C30_ChaptersFixed ==
    [][(outline # NoOutline /\ outline' # NoOutline) =>
        /\ ChapterHeads(outline') = ChapterHeads(outline)
        /\ ~TopicsAdded =>
                \A i \in DOMAIN outline.chapters :
                    SectionIdSeq(outline'.chapters[i]) = SectionIdSeq(outline.chapters[i])
        /\ TopicsAdded =>
                \E i \in DOMAIN outline.chapters :
                    /\ SectionsAppended(i)
                    /\ \A k \in DOMAIN outline.chapters \ {i} :
                            outline'.chapters[k] = outline.chapters[k]]_vars

\* the second of two chapters got an extracted topic as its second section,
\* the first chapter has its one section
C30_TopicAddedToSecondChapter ==
    /\ outline # NoOutline
    /\ Len(outline.chapters) = 2
    /\ Len(outline.chapters[1].sections) = 1
    /\ Len(outline.chapters[2].sections) = 2
    /\ outline.chapters[2].sections[2].title = "topic"

====
